---- MODULE Spec2Model ----
(***************************************************************************)
(* SPEED typing application: the Speed Engine's session life cycle, the    *)
(* Advanced Word Generator with its Word Source Loader, the legacy Word    *)
(* Manager, the Database Manager's scores table and the Typing Interface's *)
(* end-of-session handler.                                                 *)
(*                                                                         *)
(* Representation.  A word is a pair <<list, index>>.  An entry of a word   *)
(* list is a sequence of words: one word, or several for a phrase (a line  *)
(* of a word file that contains spaces).  A text is a sequence of lines    *)
(* (joined by "\n" in the program) and a line is a sequence of entries     *)
(* (joined by " ").  random.Random is a seeded deterministic generator:    *)
(* its state is a number, every sample()/shuffle() call consumes one state *)
(* and permutes by a permutation that the state determines.               *)
(***************************************************************************)
EXTENDS Integers, Sequences, FiniteSets, Bags, TLC

VARIABLES
    files,              \* environment: what each difficulty's word file holds
    word_cache,         \* WordSourceLoader._word_cache
    sources_loaded,     \* WordGenerator._sources_loaded
    allow_phrases,      \* WordGenerator._allow_phrases
    generator,          \* SpeedEngine.word_generator is not None
    rng,                \* WordGenerator._random
    current_session,    \* SpeedEngine.current_session (NoSession for None)
    lock,               \* SpeedEngine._lock: its holder, or Free
    update_callbacks,   \* SpeedEngine.update_callbacks
    session_end_callbacks, \* SpeedEngine.session_end_callbacks
    now,                \* the wall clock, in seconds
    pc,                 \* each caller's position in the operation it runs
    frame,              \* each caller's arguments and locals
    result,             \* what each caller's last operation returned
    origin,             \* which generator built the current target text
    cb_log,             \* callbacks invoked by each caller's running operation
    scores,             \* the scores table of the Database Manager, a bag of rows
    connection,         \* DatabaseManager.connection: "none", "open", "closed",
                        \* "broken" (connected to a file that is not a database)
    purged,             \* the ranks of the rows the retention rule has deleted
    saves,              \* number of save_score calls that returned True
    last_save,          \* the last save_score call: its row and what became of it
    prompt,             \* the name prompt's answer in the running end handler
    out,                \* the result of the last pure generation call
    twin,               \* a second WordGenerator and the result of its last call
    held,               \* the list a caller of the Word Source Loader holds
    dialog,             \* the NameEntryDialog and the last_user_name setting
    window              \* the Main Window: its status label, theme and tabs

vars == <<files, word_cache, sources_loaded, allow_phrases, generator, rng,
          current_session, lock, update_callbacks, session_end_callbacks,
          now, pc, frame, result, origin, cb_log, scores, connection, purged,
          saves, last_save, prompt, out, twin, held, dialog, window>>

-----------------------------------------------------------------------------
(* Bounds of the model *)

MaxSeed == 1            \* seeds and generator states are 0..MaxSeed
MaxTime == 2            \* the clock stops after MaxTime ticks
TickSeconds == 60       \* seconds between two observations of the clock
MaxCallbacks == 2       \* callbacks registered per list
MaxTyped == 1           \* characters of typed text
MaxSessions == 1        \* scores saved before the last session of the Typing Interface
MaxTotal == 4           \* total_count of generate_mixed
MaxWeight == 2          \* a weight of generate_mixed
MaxSaves == 52          \* save_score calls in a run of the scores table
MaxCount == 7           \* count of generate_words
MaxQuarters == 8        \* duration_seconds of generate_for_session, in quarter minutes
MaxLines == 3           \* lines of generate_paragraph
MaxLineChars == 12      \* max_line_chars of generate_paragraph
MaxCalls == 3           \* generation calls made on a pair of generators
MaxReads == 3           \* loads of the Word Source Loader that read the files
MaxPops == 2            \* elements a caller removes from the lists it was handed
MaxWordSteps == 30      \* words of a text given to _calculate_dynamic_duration, in steps of WordStep
MaxTextLines == 8       \* lines of a text given to _calculate_dynamic_duration
MaxStored == 2          \* save_score calls made while the connection changes state
MaxOver == 2            \* characters by which an entered name exceeds the limit
MaxBlanks == 1          \* blanks before and after an entered name
MaxTicks == 3           \* timeouts of the Main Window's status_timer
MaxRefreshes == 3       \* refreshes of the Statistics widget

(* Program constants *)

BaseWordCount == 30         \* len(base_words)
MediumWordCount == 16       \* len(medium_words)
HardWordCount == 21         \* len(hard_words)
ExtraHardWordCount == 24    \* len(extra_hard_words)
RetentionLimit == 50        \* LIMIT 50 of the DELETE in save_score

-----------------------------------------------------------------------------
(* models/difficulty.py, game/speed_engine.py: the enumerations *)

Difficulty == <<"simple", "medium", "hard", "extra_hard">>
DifficultySet == {Difficulty[i] : i \in 1..Len(Difficulty)}

GameMode == {"practice", "timed_challenge", "accuracy_focus", "speed_burst",
             "endurance"}

DifficultyLevel == {"beginner", "intermediate", "advanced", "expert"}

difficulty_map(level) ==
    CASE level = "beginner" -> "simple"
      [] level = "intermediate" -> "medium"
      [] level = "advanced" -> "hard"
      [] level = "expert" -> "extra_hard"
      [] OTHER -> "medium"

-----------------------------------------------------------------------------
(* Arithmetic helpers *)

Min(a, b) == IF a <= b THEN a ELSE b
Max(a, b) == IF a >= b THEN a ELSE b

\* The element of a singleton set.  The({F(x) : x \in {e}}) is F(e) with e
\* computed once, however often F uses x.
The(S) == CHOOSE x \in S : TRUE

-----------------------------------------------------------------------------
(* game/word_source_loader.py *)

FileState == {"missing", "empty", "words", "phrases", "denied", "repeats"}

\* A cache entry: the list the loader keeps is the list it read, so the
\* entry records what was read: a file in some state, or the fallback list,
\* and how many elements have since been removed from the end of that list
NotCached == [cached |-> FALSE, from |-> "none", cut |-> 0]
Cached(from) == [cached |-> TRUE, from |-> from, cut |-> 0]

Comment == <<"#", 0>>

\* The lines of a word file: a line is the sequence of its words, a blank
\* line is empty, a comment line starts with "#".
FileLines(d, st) ==
    CASE st = "empty" -> << <<>>, <<Comment, <<d, 9>>>> >>
      [] st = "words" -> << <<<<d, 1>>>>, <<>>, <<<<d, 2>>>>, <<<<d, 3>>>> >>
      [] st = "phrases" -> << <<<<d, 1>>, <<d, 2>>>>, <<Comment>>, <<<<d, 3>>>> >>
      [] st = "repeats" -> << <<<<d, 1>>>>, <<<<d, 1>>>>, <<<<d, 2>>>> >>
      [] OTHER -> <<>>

RECURSIVE load_lines(_, _)
load_lines(lines, allow) ==
    IF lines = <<>> THEN <<>>
    ELSE LET line == Head(lines)
             rest == load_lines(Tail(lines), allow)
         IN IF line = <<>> \/ Head(line) = Comment THEN rest
            ELSE IF allow THEN <<line>> \o rest
            ELSE IF Len(line) > 1
                 THEN [i \in 1..Len(line) |-> <<line[i]>>] \o rest
                 ELSE <<line>> \o rest

load_file(d, st, allow) ==
    CASE st = "missing" -> [ok |-> FALSE, val |-> <<>>, err |-> "FileNotFoundError"]
      [] st = "denied" -> [ok |-> FALSE, val |-> <<>>, err |-> "PermissionError"]
      [] OTHER -> [ok |-> TRUE, val |-> load_lines(FileLines(d, st), allow),
                   err |-> "none"]

WordList(name, n) == [i \in 1..n |-> <<<<name, i>>>>]

base_words == WordList("base", BaseWordCount)
medium_words == WordList("medium_words", MediumWordCount)
hard_words == WordList("hard_words", HardWordCount)
extra_hard_words == WordList("extra_hard_words", ExtraHardWordCount)

_get_fallback_words(d) ==
    CASE d = "simple" -> base_words
      [] d = "medium" -> base_words \o medium_words
      [] d = "hard" -> base_words \o medium_words \o hard_words
      [] OTHER -> base_words \o medium_words \o hard_words \o extra_hard_words

\* The list as it was cached
LoadedWords(d, entry) ==
    IF entry.from = "fallback" THEN _get_fallback_words(d)
    ELSE load_file(d, entry.from, TRUE).val

\* The list a cache entry holds
CachedWords(d, entry) ==
    IF entry.cut = 0 THEN LoadedWords(d, entry)
    ELSE SubSeq(LoadedWords(d, entry), 1, Len(LoadedWords(d, entry)) - entry.cut)

\* A loader that hands out the list it keeps
returned_list_is_cached(d) == "cache"

\* lines 90, 108 and 116: every return is "....copy()"
returned_list(d) == "copy"

\* Returns [ok, val, cache, err]: the words (a copy) and the cache afterwards.
get_words_for_difficulty(cache, d) ==
    IF cache[d].cached
    THEN [ok |-> TRUE, val |-> CachedWords(d, cache[d]), cache |-> cache,
          err |-> "none"]
    ELSE LET f == load_file(d, files[d], TRUE)
         IN IF f.ok
            THEN [ok |-> TRUE, val |-> f.val,
                  cache |-> [cache EXCEPT ![d] = Cached(files[d])], err |-> "none"]
            ELSE IF f.err = "FileNotFoundError"
            THEN [ok |-> TRUE, val |-> _get_fallback_words(d),
                  cache |-> [cache EXCEPT ![d] = Cached("fallback")],
                  err |-> "none"]
            ELSE [ok |-> FALSE, val |-> <<>>, cache |-> cache, err |-> f.err]

loader_reload_sources(cache) == [d \in DifficultySet |-> NotCached]

-----------------------------------------------------------------------------
(* speed_word_generator.py: the generator's state is the record            *)
(* [cache, loaded, allow, rng, loads], loads counting the runs of           *)
(* load_default_sources since the caller last looked; a call returns        *)
(* [ok, val, g, err]                                                        *)

GOk(v, g) == [ok |-> TRUE, val |-> v, g |-> g, err |-> "none"]
GRaise(e, g) == [ok |-> FALSE, val |-> <<>>, g |-> g, err |-> e]

\* random.Random: the state after k further calls, and the permutation of
\* 1..n that a call in state s applies.
Adv(s, k) == (s + k) % (MaxSeed + 1)
Perm(n, s, i) ==
    IF s % 2 = 0 THEN ((i - 1 + s) % n) + 1 ELSE n - ((i - 1 + s) % n)
Shuffle(seq, s) ==
    The({[i \in 1..Len(q) |-> q[Perm(Len(q), r, i)]] : q \in {seq}, r \in {s}})
\* A sample that draws one position k times
SampleOnePosition(seq, k, s) == [i \in 1..k |-> Shuffle(seq, s)[1]]

\* random.Random.sample: k positions of seq, none of them twice
Sample(seq, k, s) == SubSeq(Shuffle(seq, s), 1, k)

RECURSIVE load_loop(_, _, _)
\* The loop of load_default_sources over Difficulty from index i on:
\* [cache, n] with n the number of difficulties that yielded words.
load_loop(cache, i, n) ==
    IF i > Len(Difficulty) THEN [cache |-> cache, n |-> n]
    ELSE The({load_loop(r.cache, i + 1,
                        IF r.ok /\ r.val # <<>> THEN n + 1 ELSE n) :
                 r \in {get_words_for_difficulty(cache, Difficulty[i])}})

load_default_sources(g, allow) ==
    The({LET g1 == [g EXCEPT !.allow = allow, !.cache = l.cache,
                             !.loads = @ + 1]
         IN IF l.n = 0 THEN GRaise("RuntimeError", g1)
            ELSE GOk(<<>>, [g1 EXCEPT !.loaded = TRUE]) :
            l \in {load_loop(g.cache, 1, 0)}})

_ensure_sources_loaded(g) ==
    IF ~g.loaded THEN load_default_sources(g, g.allow) ELSE GOk(<<>>, g)

_get_words_for_difficulty(g, d) ==
    The({IF ~e.ok THEN e
         ELSE The({IF r.ok THEN GOk(r.val, [e.g EXCEPT !.cache = r.cache])
                   ELSE GRaise(r.err, [e.g EXCEPT !.cache = r.cache]) :
                      r \in {get_words_for_difficulty(e.g.cache, d)}}) :
            e \in {_ensure_sources_loaded(g)}})

reload_sources(g) ==
    [g EXCEPT !.cache = loader_reload_sources(g.cache), !.loaded = FALSE]

\* The words selected by the batch loop of generate_words before the final
\* shuffle: batch b (from 0) is a shuffle, or for the last partial batch a
\* sample, drawn in the generator state reached after b calls.
Batches(pool, count, s) ==
    The({[j \in 1..count |->
            q[Perm(Len(q), Adv(r, (j - 1) \div Len(q)), ((j - 1) % Len(q)) + 1)]] :
            q \in {pool}, r \in {s}})

BatchCount(n, count) == (count + n - 1) \div n

generate_words(g, d, count) ==
    IF count <= 0 THEN GRaise("ValueError", g)
    ELSE The({IF ~a.ok THEN a
              ELSE IF a.val = <<>> THEN GRaise("RuntimeError", a.g)
              ELSE IF count <= Len(a.val)
              THEN GOk(Sample(a.val, count, a.g.rng),
                       [a.g EXCEPT !.rng = Adv(a.g.rng, 1)])
              ELSE LET nb == BatchCount(Len(a.val), count)
                   IN GOk(Shuffle(Batches(a.val, count, a.g.rng),
                                  Adv(a.g.rng, nb)),
                          [a.g EXCEPT !.rng = Adv(a.g.rng, nb + 1)]) :
                 a \in {_get_words_for_difficulty(g, d)}})

time_options == <<1, 2, 3, 5, 7, 10>>
word_counts == <<70, 140, 210, 350, 490, 700>>
TimeOptionSet == {time_options[i] : i \in 1..Len(time_options)}

calculate_word_count_for_time(minutes) ==
    word_counts[CHOOSE i \in 1..Len(time_options) : time_options[i] = minutes]

generate_for_time_selection(g, d, minutes) ==
    IF minutes \notin TimeOptionSet THEN GRaise("ValueError", g)
    ELSE generate_words(g, d, calculate_word_count_for_time(minutes))

\* int(duration_seconds / 60.0 * target_wpm), then int(base * 1.10) with
\* session_buffer_percentage = 10, then the minimum of 10 words.  The
\* program computes in binary floating point and the model exactly: the two
\* agree when duration_seconds is a multiple of 15 (up to 1200 s and 120
\* WPM), which is where the model applies it; for other durations the
\* quotient can fall just short of a whole number (276 s at 25 WPM gives a
\* base of 114, not 115).
session_word_count(duration_seconds, target_wpm) ==
    Max(((((duration_seconds * target_wpm) \div 60) * 110) \div 100), 10)

generate_for_session(g, d, duration_seconds, target_wpm) ==
    IF duration_seconds <= 0 THEN GRaise("ValueError", g)
    ELSE IF target_wpm <= 0 THEN GRaise("ValueError", g)
    ELSE generate_words(g, d, session_word_count(duration_seconds, target_wpm))

-----------------------------------------------------------------------------
(* generate_paragraph *)

WordChars(w) ==
    CASE w[1] = "base" -> 3
      [] w[1] = "medium_words" -> 5
      [] w[1] = "hard_words" -> 7
      [] w[1] = "extra_hard_words" -> 10
      [] OTHER -> 3 + w[2]

RECURSIVE EntryChars(_)
\* len() of an entry: its words and the spaces between them
EntryChars(e) ==
    IF Len(e) = 0 THEN 0
    ELSE IF Len(e) = 1 THEN WordChars(e[1])
    ELSE WordChars(e[1]) + 1 + EntryChars(Tail(e))

RECURSIVE SumChars(_, _, _)
\* the sum of len() over entries a..b of ws
SumChars(ws, a, b) ==
    IF b < a THEN 0
    ELSE IF a = b THEN EntryChars(ws[a])
    ELSE SumChars(ws, a, (a + b) \div 2) + SumChars(ws, ((a + b) \div 2) + 1, b)

\* A length that leaves the joining spaces out
LineCharsUnspaced(ws, a, b) == IF b < a THEN 0 ELSE SumChars(ws, a, b)

\* len() of entries a..b of ws joined by single spaces (test_line)
LineChars(ws, a, b) ==
    IF b < a THEN 0 ELSE SumChars(ws, a, b) + (b - a)

RECURSIVE LineSearch(_, _, _, _, _)
\* The greatest b in lo..hi with LineChars(ws, a, b) <= max_line_chars,
\* where lo fits: the while loop adds words as long as test_line fits,
\* and test_line only grows.
LineSearch(ws, a, lo, hi, max_line_chars) ==
    IF lo >= hi THEN lo
    ELSE The({IF LineChars(ws, a, m) <= max_line_chars
              THEN LineSearch(ws, a, m, hi, max_line_chars)
              ELSE LineSearch(ws, a, lo, m - 1, max_line_chars) :
                 m \in {(lo + hi + 1) \div 2}})

\* The while loop of a line: the last index the line takes when it starts
\* at word_index (word_index - 1 when not even one word fits).
LineEnd(ws, word_index, max_line_chars) ==
    LineSearch(ws, word_index, word_index - 1, Len(ws), max_line_chars)

RECURSIVE paragraph_loop(_, _, _, _, _, _, _, _, _)
paragraph_loop(g, d, ws, word_index, line_num, lines, max_line_chars, est, acc) ==
    IF line_num >= lines THEN GOk(acc, g)
    ELSE The({
        \* e0 is where the while loop stops; at least one word is forced
        LET e == IF e0 < word_index /\ word_index <= Len(ws) THEN word_index ELSE e0
        IN IF e < word_index
           THEN \* out of words: generate more and continue with the next line
                The({IF ~m.ok THEN m
                     ELSE The({paragraph_loop(m.g, d, more, word_index,
                                   line_num + 1, lines, max_line_chars, est, acc) :
                                 more \in {ws \o m.val}}) :
                        m \in {generate_words(g, d, est * 2)}})
           ELSE IF e + 1 > Len(ws) /\ line_num < lines - 1
           THEN The({IF ~m.ok THEN m
                     ELSE The({paragraph_loop(m.g, d, more, e + 1, line_num + 1,
                                   lines, max_line_chars, est, done) :
                                 more \in {ws \o m.val},
                                 done \in {Append(acc, SubSeq(ws, word_index, e))}}) :
                        m \in {generate_words(g, d, est * (lines - line_num))}})
           ELSE The({paragraph_loop(g, d, ws, e + 1, line_num + 1, lines,
                                    max_line_chars, est, done) :
                        done \in {Append(acc, SubSeq(ws, word_index, e))}}) :
        e0 \in {LineEnd(ws, word_index, max_line_chars)}})

generate_paragraph(g, d, lines, max_line_chars) ==
    IF lines <= 0 THEN GRaise("ValueError", g)
    ELSE IF max_line_chars <= 0 THEN GRaise("ValueError", g)
    ELSE LET est == Max(1, max_line_chars \div 6)
             buffer_words == (lines * est * 3) \div 2
         IN The({IF ~a.ok THEN a
                 ELSE paragraph_loop(a.g, d, a.val, 1, 0, lines, max_line_chars,
                                     est, <<>>) :
                    a \in {generate_words(g, d, buffer_words)}})

-----------------------------------------------------------------------------
(* generate_mixed: weights is the dict in insertion order, a sequence of   *)
(* [d, w] with distinct d; weights are integers here, so that              *)
(* total_count * w / total_weight is exact (the program uses floats)       *)

RECURSIVE SumWeights(_)
SumWeights(weights) ==
    IF weights = <<>> THEN 0 ELSE Head(weights).w + SumWeights(Tail(weights))

\* int(total_count * normalized_weight)
FloorShare(weights, i, total_count) ==
    (total_count * weights[i].w) \div SumWeights(weights)

\* exact_count - int(exact_count), as a numerator over total_weight
Fraction(weights, i, total_count) ==
    (total_count * weights[i].w) % SumWeights(weights)

RECURSIVE SumShares(_, _, _)
SumShares(weights, i, total_count) ==
    IF i = 0 THEN 0
    ELSE FloorShare(weights, i, total_count) + SumShares(weights, i - 1, total_count)

Remaining(weights, total_count) ==
    total_count - SumShares(weights, Len(weights), total_count)

\* fractional_parts.sort(reverse=True) compares the (fraction, difficulty)
\* tuples; two equal fractions make it compare two Difficulty members,
\* which have no order: TypeError.
SortRaises(weights, total_count) ==
    \E i, j \in 1..Len(weights) :
        i # j /\ Fraction(weights, i, total_count) = Fraction(weights, j, total_count)

\* The position of weights[i] in the list sorted by fraction, descending.
SortedRank(weights, i, total_count) ==
    Cardinality({j \in 1..Len(weights) :
        Fraction(weights, j, total_count) > Fraction(weights, i, total_count)})

\* difficulty_counts after the distribution of the remaining words
difficulty_count(weights, i, total_count) ==
    FloorShare(weights, i, total_count)
    + (IF SortedRank(weights, i, total_count) < Remaining(weights, total_count)
       THEN 1 ELSE 0)

RECURSIVE mixed_loop(_, _, _, _, _)
\* The generation loop over difficulty_counts from index i on; acc holds
\* all_words, and the count of each difficulty drawn is kept in drawn.
mixed_loop(g, weights, i, total_count, acc) ==
    IF i > Len(weights) THEN GOk(acc, g)
    ELSE LET d == weights[i].d
             count == difficulty_count(weights, i, total_count)
         IN IF count <= 0
            THEN mixed_loop(g, weights, i + 1, total_count, acc)
            ELSE The({
                IF r.ok
                THEN The({mixed_loop(r.g, weights, i + 1, total_count, all) :
                             all \in {acc \o r.val}})
                ELSE LET first_available == weights[1].d
                     IN IF first_available # d
                        THEN The({The({mixed_loop(c.g, weights, i + 1,
                                                  total_count, all) :
                                         all \in {IF c.ok THEN acc \o c.val
                                                  ELSE acc}}) :
                                    c \in {generate_words(r.g, first_available, count)}})
                        ELSE mixed_loop(r.g, weights, i + 1, total_count, acc) :
                r \in {generate_words(g, d, count)}})

generate_mixed(g, weights, total_count) ==
    IF total_count <= 0 THEN GRaise("ValueError", g)
    ELSE IF weights = <<>> THEN GRaise("ValueError", g)
    ELSE IF \E i \in 1..Len(weights) :
              weights[i].d \notin DifficultySet \/ weights[i].w < 0
    THEN GRaise("ValueError", g)
    ELSE IF SumWeights(weights) = 0 THEN GRaise("ValueError", g)
    ELSE IF Remaining(weights, total_count) > 0 /\ Len(weights) > 1
            /\ SortRaises(weights, total_count)
    THEN GRaise("TypeError", g)
    ELSE The({GOk(Shuffle(m.val, m.g.rng), [m.g EXCEPT !.rng = Adv(m.g.rng, 1)]) :
                 m \in {mixed_loop(g, weights, 1, total_count, <<>>)}})

-----------------------------------------------------------------------------
(* game/word_manager.py: the legacy Word Manager.  It draws from the       *)
(* module-level random generator; which words it draws is not modelled,    *)
(* only how many items it draws, how many words an item holds (v: pattern  *)
(* generators return several words) and how the words are laid out.        *)

_get_expected_wpm(level) ==
    CASE level = "beginner" -> 25
      [] level = "intermediate" -> 40
      [] level = "advanced" -> 60
      [] level = "expert" -> 80
      [] OTHER -> 40

\* The second definition of _calculate_words_needed replaces the first one
\* in the class body: it takes (difficulty, duration) and nothing else.
_calculate_words_needed(level, duration) ==
    Max(20, (duration * _get_expected_wpm(level) * 15) \div 600)

\* max(40, int((duration / 60) * base_wpm * speed_factor * 1.5)) items with
\* base_wpm = 60 and speed_factor = tenths / 10, each of v words
_mix_patterns(duration, tenths, v) ==
    Max(40, (duration * tenths * 15) \div 100) * v

\* words = text.split(); lines of words_per_line = 8 words, and lines of 8
\* repeated words up to 5 lines
_format_multiline_text(n) ==
    LET full == (n + 7) \div 8
        count == IF n = 0 THEN 0 ELSE Max(full, 5)
    IN [i \in 1..count |->
          IF i <= full
          THEN [k \in 1..(Min(i * 8, n) - (i - 1) * 8) |-> <<<<"legacy", (i - 1) * 8 + k>>>>]
          ELSE [k \in 1..8 |-> <<<<"legacy", ((k - 1) % Min(20, n)) + 1>>>>]]

LOk(n) == [ok |-> TRUE, val |-> _format_multiline_text(n), err |-> "none"]
LRaise(e) == [ok |-> FALSE, val |-> <<>>, err |-> e]

get_practice_text(level, duration, v) ==
    CASE level \in {"beginner", "intermediate"} ->
            LOk(_calculate_words_needed(level, duration))
      [] level = "advanced" -> LOk(_mix_patterns(duration, 8, v))
      [] OTHER -> LOk(_mix_patterns(duration, 6, v))

get_challenge_text(level, duration, v) ==
    CASE level \in {"beginner", "intermediate"} ->
            LOk(Max(25, (duration * _get_expected_wpm(level) * 13) \div 600))
      [] level = "advanced" -> LOk(_mix_patterns(duration, 7, v))
      [] OTHER -> LOk(_mix_patterns(duration, 5, v))

\* beginner and intermediate call _calculate_words_needed(difficulty,
\* duration, 0.8): one argument more than the definition in force takes.
get_accuracy_text(level, duration, v) ==
    CASE level \in {"beginner", "intermediate"} -> LRaise("TypeError")
      [] level = "advanced" -> LOk(_mix_patterns(duration, 6, v))
      [] OTHER -> LOk(_mix_patterns(duration, 5, v))

get_speed_text(level, duration, v) ==
    CASE level \in {"beginner", "intermediate"} ->
            LOk(Max(30, (duration * _get_expected_wpm(level) * 216) \div 6000))
      [] level = "advanced" -> LOk(_mix_patterns(duration, 12, v))
      [] OTHER -> LOk(_mix_patterns(duration, 10, v))

get_endurance_text(level, duration, v) ==
    CASE level \in {"beginner", "intermediate"} ->
            LOk(Max(50, (duration * _get_expected_wpm(level) * 2) \div 60))
      [] level = "advanced" -> LOk(_mix_patterns(duration, 20, v))
      [] OTHER -> LOk(_mix_patterns(duration, 18, v))

-----------------------------------------------------------------------------
(* game/speed_engine.py: target text and planned duration *)

JoinSpaces(words) == The({IF ws = <<>> THEN <<>> ELSE <<ws>> : ws \in {words}})
JoinResult(r) == [r EXCEPT !.val = JoinSpaces(@)]
JoinNewlines(lines) == lines

_get_target_wpm_for_difficulty(level) ==
    CASE level = "beginner" -> 25
      [] level = "intermediate" -> 40
      [] level = "advanced" -> 55
      [] level = "expert" -> 70
      [] OTHER -> 40

\* A generated text: [ok, val, g, err, origin]
TOk(text, g, o) == [ok |-> TRUE, val |-> text, g |-> g, err |-> "none", origin |-> o]
TRaise(e, g) == [ok |-> FALSE, val |-> <<>>, g |-> g, err |-> e, origin |-> "none"]

FromLegacy(l, g) == IF l.ok THEN TOk(l.val, g, "legacy") ELSE TRaise(l.err, g)

accuracy_weights(d) ==
    << [d |-> d, w |-> 7],
       [d |-> IF d # "hard" THEN "hard" ELSE "extra_hard", w |-> 3] >>

\* The try block of _generate_target_text: the Advanced Word Generator
advanced_target_text(g, mode, level, duration) ==
    LET d == difficulty_map(level)
    IN CASE mode = "practice" -> generate_paragraph(g, d, 6, 200)
         [] mode = "timed_challenge" ->
              JoinResult(generate_for_session(g, d, duration,
                                              _get_target_wpm_for_difficulty(level)))
         [] mode = "accuracy_focus" ->
              JoinResult(generate_mixed(g, accuracy_weights(d), 100))
         [] mode = "speed_burst" -> JoinResult(generate_words(g, d, 50))
         [] mode = "endurance" ->
              JoinResult(generate_for_session(g, d, duration * 2,
                                              _get_target_wpm_for_difficulty(level)))
         [] OTHER -> generate_paragraph(g, d, 5, 180)

legacy_target_text(mode, level, duration, v) ==
    CASE mode = "practice" -> get_practice_text(level, duration, v)
      [] mode = "timed_challenge" -> get_challenge_text(level, duration, v)
      [] mode = "accuracy_focus" -> get_accuracy_text(level, duration, v)
      [] mode = "speed_burst" -> get_speed_text(level, duration, v)
      [] mode = "endurance" -> get_endurance_text(level, duration, v)
      [] OTHER -> get_practice_text(level, duration, v)

_generate_target_text(avail, g, mode, level, duration, v) ==
    IF ~avail THEN FromLegacy(legacy_target_text(mode, level, duration, v), g)
    ELSE The({IF a.ok THEN TOk(a.val, a.g, "advanced")
              ELSE FromLegacy(legacy_target_text(mode, level, duration, v), a.g) :
                 a \in {advanced_target_text(g, mode, level, duration)}})

\* The try block of _generate_time_based_text: every branch is the same call
advanced_time_based_text(g, mode, level, minutes) ==
    JoinResult(generate_for_time_selection(g, difficulty_map(level), minutes))

legacy_time_based_text(mode, level, minutes, v) ==
    CASE mode = "timed_challenge" -> get_challenge_text(level, minutes * 60, v)
      [] mode = "accuracy_focus" -> get_accuracy_text(level, minutes * 60, v)
      [] mode = "speed_burst" -> get_speed_text(level, minutes * 60, v)
      [] mode = "endurance" -> get_endurance_text(level, minutes * 60, v)
      [] OTHER -> get_challenge_text(level, minutes * 60, v)

_generate_time_based_text(avail, g, mode, level, minutes, v) ==
    IF ~avail THEN FromLegacy(legacy_time_based_text(mode, level, minutes, v), g)
    ELSE The({IF a.ok THEN TOk(a.val, a.g, "advanced")
              ELSE FromLegacy(legacy_time_based_text(mode, level, minutes, v), a.g) :
                 a \in {advanced_time_based_text(g, mode, level, minutes)}})

RECURSIVE SumSet(_)
\* the sum of value * multiplicity over a set of <<value, multiplicity>>
SumSet(S) == IF S = {} THEN 0
             ELSE LET x == CHOOSE y \in S : TRUE IN x[1] * x[2] + SumSet(S \ {x})

\* len(text.split()) and len(text.split('\n'))
LineWords(line) ==
    SumSet({<<c, Cardinality({i \in 1..Len(line) : Len(line[i]) = c})>> :
               c \in {Len(line[i]) : i \in 1..Len(line)}})
WordCount(text) ==
    SumSet({<<c, Cardinality({i \in 1..Len(text) : LineWords(text[i]) = c})>> :
               c \in {LineWords(text[i]) : i \in 1..Len(text)}})
LineCount(text) == Max(1, Len(text))

mode_multiplier(mode) ==
    CASE mode = "accuracy_focus" -> 15
      [] mode = "speed_burst" -> 8
      [] mode = "endurance" -> 12
      [] mode = "timed_challenge" -> 13
      [] OTHER -> 10

level_multiplier(level) ==
    CASE level = "expert" -> 14
      [] level = "advanced" -> 12
      [] OTHER -> 10

\* base_time * complexity_multiplier + line_bonus of lines 159-194 as a
\* fraction [num, den]; the multipliers are in tenths.
duration_fraction(text, level, mode) ==
    LET expected_wpm == _get_target_wpm_for_difficulty(level)
    IN The({[num |-> word_count * 60 * mode_multiplier(mode) * level_multiplier(level)
                     + Max(0, (line_count - 5) * 5) * expected_wpm * 100,
             den |-> expected_wpm * 100] :
               word_count \in {WordCount(text)}, line_count \in {LineCount(text)}})

\* int(...) of line 194 in exact arithmetic
final_duration(text, level, mode) ==
    The({f.num \div f.den : f \in {duration_fraction(text, level, mode)}})

\* int(...) of line 194 as the program's floating point can give it: where
\* the division is exact, the floating-point product can fall short of the
\* whole number and is then truncated to one less.
final_durations(text, level, mode) ==
    UNION {{f.num \div f.den} \cup
           (IF f.num % f.den = 0 /\ f.num > 0 THEN {f.num \div f.den - 1} ELSE {}) :
             f \in {duration_fraction(text, level, mode)}}

\* A duration that is not brought into the bounds
bounded_duration_unbounded(final) == final

\* lines 196-200: max(min_duration, min(max_duration, final_duration))
bounded_duration(final) == Max(30, Min(600, final))

_calculate_dynamic_duration(text, level, mode) ==
    bounded_duration(final_duration(text, level, mode))

-----------------------------------------------------------------------------
(* game/performance_calculator.py: typed text is [len, correct], its       *)
(* length and the number of its characters that match the target text;     *)
(* WPM and accuracy are kept in tenths                                     *)

NoTyped == [len |-> 0, correct |-> 0]
TypedTexts == {x \in [len : 0..MaxTyped, correct : 0..MaxTyped] : x.correct <= x.len}

Round(num, den) == (2 * num + den) \div (2 * den)

calculate_wpm(typed, seconds) ==
    IF seconds <= 0 THEN 0 ELSE Round(typed.len * 12 * 10, seconds)

calculate_accuracy(typed) ==
    IF typed.len = 0 THEN 0 ELSE Round(typed.correct * 1000, typed.len)

-----------------------------------------------------------------------------
(* game/speed_engine.py: sessions and score records *)

Free == "free"
Callers == {"t1", "t2"}
Threads == Callers \cup {"ui"}

NoSession ==
    [none |-> TRUE, session_id |-> <<"", 0>>, user_name |-> "", mode |-> "",
     difficulty |-> "", start_time |-> 0, target_text |-> <<>>,
     duration_seconds |-> 0, is_active |-> FALSE, end_time |-> -1,
     typed_text |-> NoTyped, current_wpm |-> 0, current_accuracy |-> 0]

GameSession(user, mode, level, text, duration, time) ==
    [none |-> FALSE, session_id |-> <<user, time>>, user_name |-> user,
     mode |-> mode, difficulty |-> level, start_time |-> time,
     target_text |-> text, duration_seconds |-> duration, is_active |-> TRUE,
     end_time |-> -1, typed_text |-> NoTyped, current_wpm |-> 0,
     current_accuracy |-> 0]

NoRecord ==
    [none |-> TRUE, id |-> 0, user_name |-> "", wpm |-> 0, accuracy |-> 0,
     level |-> "", mode |-> "", date |-> 0, duration |-> 0,
     total_characters |-> 0, correct_characters |-> 0]

\* A session counts as active as long as the engine holds one
is_session_active_if_held == ~current_session.none

\* lines 460-462, and the same test at lines 93, 124, 205 and 231
is_session_active == ~current_session.none /\ current_session.is_active

\* _finalize_session: the session as ended at time t, and its score record
FinalizedSession(s, t) == [s EXCEPT !.is_active = FALSE, !.end_time = t]

ScoreRecord(s, t) ==
    [none |-> FALSE, id |-> 0, user_name |-> s.user_name,
     wpm |-> calculate_wpm(s.typed_text, t - s.start_time),
     accuracy |-> calculate_accuracy(s.typed_text),
     level |-> s.difficulty, mode |-> s.mode, date |-> t,
     duration |-> t - s.start_time,
     total_characters |-> s.typed_text.len,
     correct_characters |-> s.typed_text.correct]

get_time_remaining ==
    IF ~is_session_active THEN 0
    ELSE Max(0, current_session.duration_seconds - (now - current_session.start_time))

get_elapsed_time ==
    IF ~is_session_active THEN 0 ELSE now - current_session.start_time

-----------------------------------------------------------------------------
(* The callers' frames and results *)

NoFrame ==
    [op |-> "none", user |-> "", mode |-> "", level |-> "", n |-> 0,
     typed |-> NoTyped, i |-> 0, record |-> NoRecord, wpm |-> 0, accuracy |-> 0]

\* What a caller holds of its last call: the operation, its numeric
\* argument (duration or minutes), and what it returned or that it raised
NoResult ==
    [op |-> "none", arg |-> 0, status |-> "none", record |-> NoRecord, num |-> 0]

Returned(op, status) ==
    [op |-> op, arg |-> 0, status |-> status, record |-> NoRecord, num |-> 0]

StartReturned(op, n, status) ==
    [op |-> op, arg |-> n, status |-> status, record |-> NoRecord, num |-> 0]

G == [cache |-> word_cache, loaded |-> sources_loaded, allow |-> allow_phrases,
      rng |-> rng, loads |-> 0]

SetG(g) ==
    /\ word_cache' = g.cache
    /\ sources_loaded' = g.loaded
    /\ allow_phrases' = g.allow
    /\ rng' = g.rng

generator_vars == <<word_cache, sources_loaded, allow_phrases, rng, generator>>
db_vars == <<scores, connection, purged, saves, last_save>>
callback_vars == <<update_callbacks, session_end_callbacks>>

-----------------------------------------------------------------------------
(* ui/main_window.py: the handlers of the Main Window. The text of the     *)
(* status label is [kind, a, b]: "Ready", "Time" with minutes and seconds,  *)
(* "WPM" with the rates, "Session completed".                               *)

Label(kind, a, b) == [kind |-> kind, a |-> a, b |-> b]

Ready == Label("Ready", 0, 0)

\* lines 415-417
on_session_update(w, wpm, accuracy) ==
    [w EXCEPT !.session_status_label = Label("WPM", wpm, accuracy)]

\* lines 452-460, run by the 1-second status_timer
update_status(w) ==
    IF is_session_active
    THEN [w EXCEPT !.session_status_label =
              Label("Time", get_time_remaining \div 60, get_time_remaining % 60)]
    ELSE IF w.session_status_label.kind = "Time"
         THEN [w EXCEPT !.session_status_label = Ready]
         ELSE w

\* The window after a callback of the engine has run
AfterUpdateCallback(cb, wpm, accuracy) ==
    IF window.made /\ cb = "MainWindow.on_session_update"
    THEN on_session_update(window, wpm, accuracy)
    ELSE window

-----------------------------------------------------------------------------
(* SpeedEngine: the operations.  A block under "with self._lock" runs only *)
(* while no other caller holds the lock; start_session,                    *)
(* start_time_based_session and reset_session take and release it within   *)
(* one step, end_session holds it while it invokes the callbacks.          *)
(* update_typed_text takes no lock: it is one action per step that another *)
(* caller can observe.                                                     *)

\* The text and the planned duration of the session being created
NewSessionText(op, mode, level, n, v) ==
    IF op = "start_session"
    THEN _generate_target_text(generator, G, mode, level, n, v)
    ELSE _generate_time_based_text(generator, G, mode, level, n, v)

\* A planned duration computed from the text for both kinds of start
NewSessionDurationDynamic(op, mode, level, n, text) ==
    _calculate_dynamic_duration(text, level, mode)

\* lines 99-100 and the duration_seconds argument of lines 129-137
NewSessionDuration(op, mode, level, n, text) ==
    IF op = "start_session"
    THEN _calculate_dynamic_duration(text, level, mode)
    ELSE n * 60

\* The pattern generators serve the advanced and expert levels only
PatternWords(level) == IF level \in {"advanced", "expert"} THEN 1..2 ELSE {1}

\* A start that takes a session whose time has run out for a finished one
start_refused_until_timeout == is_session_active /\ get_time_remaining > 0

\* lines 93-94 and 124-125: "if self.current_session and
\* self.current_session.is_active: return False"
start_refused == is_session_active

\* lines 92-118 and 123-149; what the text generation raises leaves the block
StartBody(t, op, user, mode, level, n) ==
    /\ pc[t] = "idle"
    /\ lock = Free
    /\ cb_log' = [cb_log EXCEPT ![t] = <<>>]
    /\ IF start_refused
       THEN /\ result' = [result EXCEPT ![t] = StartReturned(op, n, "False")]
            /\ UNCHANGED <<generator_vars, current_session, origin>>
       ELSE \E v \in PatternWords(level) :
              \E r \in {NewSessionText(op, mode, level, n, v)} :
                 /\ SetG(r.g)
                 /\ UNCHANGED generator
                 /\ IF r.ok
                    THEN /\ current_session' =
                               GameSession(user, mode, level, r.val,
                                   NewSessionDuration(op, mode, level, n, r.val),
                                   now)
                         /\ origin' = r.origin
                         /\ result' = [result EXCEPT ![t] =
                                            StartReturned(op, n, "True")]
                    ELSE /\ result' = [result EXCEPT ![t] =
                                            StartReturned(op, n, "raised")]
                         /\ UNCHANGED <<current_session, origin>>
    /\ UNCHANGED <<files, lock, callback_vars, now, pc, frame, db_vars, prompt,
                   out, twin, held, dialog>>

start_session(t, user, mode, level, duration) ==
    /\ StartBody(t, "start_session", user, mode, level, duration)
    /\ UNCHANGED window

start_time_based_session(t, user, mode, level, minutes) ==
    /\ StartBody(t, "start_time_based_session", user, mode, level, minutes)
    /\ UNCHANGED window

\* update_typed_text, lines 205-206
UpdateEnter(t, typed) ==
    /\ pc[t] = "idle"
    /\ IF is_session_active
       THEN /\ pc' = [pc EXCEPT ![t] = "update_write"]
            /\ frame' = [frame EXCEPT ![t] = [NoFrame EXCEPT
                            !.op = "update_typed_text", !.typed = typed]]
            /\ result' = [result EXCEPT ![t] = NoResult]
       ELSE /\ result' = [result EXCEPT ![t] = Returned("update_typed_text", "None")]
            /\ UNCHANGED <<pc, frame>>
    /\ cb_log' = [cb_log EXCEPT ![t] = <<>>]
    /\ UNCHANGED <<files, generator_vars, current_session, lock, callback_vars,
                   now, origin, db_vars, prompt, out, twin, held, dialog, window>>

\* lines 208-216: self.current_session is read again, without the lock
UpdateWrite(t) ==
    /\ pc[t] = "update_write"
    /\ IF current_session.none
       THEN /\ pc' = [pc EXCEPT ![t] = "idle"]
            /\ result' = [result EXCEPT ![t] = Returned("update_typed_text", "raised")]
            /\ frame' = [frame EXCEPT ![t] = NoFrame]
            /\ UNCHANGED current_session
       ELSE LET elapsed_time == now - current_session.start_time
            IN /\ current_session' =
                     [current_session EXCEPT !.typed_text = frame[t].typed]
               /\ IF elapsed_time > 0
                  THEN /\ pc' = [pc EXCEPT ![t] = "update_stats"]
                       /\ frame' = [frame EXCEPT
                            ![t].wpm = calculate_wpm(frame[t].typed, elapsed_time),
                            ![t].accuracy = calculate_accuracy(frame[t].typed)]
                       /\ UNCHANGED result
                  ELSE /\ pc' = [pc EXCEPT ![t] = "idle"]
                       /\ result' = [result EXCEPT
                            ![t] = Returned("update_typed_text", "None")]
                       /\ frame' = [frame EXCEPT ![t] = NoFrame]
    /\ UNCHANGED <<files, generator_vars, lock, callback_vars, now, origin,
                   cb_log, db_vars, prompt, out, twin, held, dialog, window>>

\* lines 218-219
UpdateStats(t) ==
    /\ pc[t] = "update_stats"
    /\ IF current_session.none
       THEN /\ pc' = [pc EXCEPT ![t] = "idle"]
            /\ result' = [result EXCEPT ![t] = Returned("update_typed_text", "raised")]
            /\ frame' = [frame EXCEPT ![t] = NoFrame]
            /\ UNCHANGED current_session
       ELSE /\ current_session' = [current_session EXCEPT
                    !.current_wpm = frame[t].wpm,
                    !.current_accuracy = frame[t].accuracy]
            /\ pc' = [pc EXCEPT ![t] = "update_callbacks"]
            /\ frame' = [frame EXCEPT ![t].i = 1]
            /\ UNCHANGED result
    /\ UNCHANGED <<files, generator_vars, lock, callback_vars, now, origin,
                   cb_log, db_vars, prompt, out, twin, held, dialog, window>>

\* A loop that a raising callback leaves
AfterCallbackAborts(cbs, i) == IF cbs[i] = "raises" THEN Len(cbs) + 1 ELSE i + 1

\* The loop index after callback i of cbs has run: "try: callback(...)
\* except Exception" inside the loop, so a callback that raises is passed
AfterCallback(cbs, i) == i + 1

\* lines 222-226: one callback of the loop; what it raises is caught
UpdateCallback(t) ==
    /\ pc[t] = "update_callbacks"
    /\ frame[t].i <= Len(update_callbacks)
    /\ cb_log' = [cb_log EXCEPT ![t] = Append(@, update_callbacks[frame[t].i])]
    /\ frame' = [frame EXCEPT ![t].i = AfterCallback(update_callbacks, @)]
    /\ window' = AfterUpdateCallback(update_callbacks[frame[t].i],
                                     frame[t].wpm, frame[t].accuracy)
    /\ UNCHANGED <<files, generator_vars, current_session, lock, callback_vars,
                   now, pc, result, origin, db_vars, prompt, out, twin, held, dialog>>

UpdateReturn(t) ==
    /\ pc[t] = "update_callbacks"
    /\ frame[t].i > Len(update_callbacks)
    /\ pc' = [pc EXCEPT ![t] = "idle"]
    /\ result' = [result EXCEPT ![t] = Returned("update_typed_text", "done")]
    /\ frame' = [frame EXCEPT ![t] = NoFrame]
    /\ cb_log' = [cb_log EXCEPT ![t] = <<>>]
    /\ UNCHANGED <<files, generator_vars, current_session, lock, callback_vars,
                   now, origin, db_vars, prompt, out, twin, held, dialog, window>>

-----------------------------------------------------------------------------
(* game/database_manager.py: the scores table is a bag of rows; a row is   *)
(* the columns that save_score writes (the id only tells equal rows apart) *)

Row(score) ==
    [user_name |-> score.user_name, wpm |-> score.wpm,
     accuracy |-> score.accuracy, level |-> score.level, mode |-> score.mode,
     duration |-> score.duration, total_characters |-> score.total_characters,
     correct_characters |-> score.correct_characters]

Rank(row) == <<row.wpm, row.accuracy>>

\* ORDER BY wpm DESC, accuracy DESC: a comes no later than b
RanksAtLeast(a, b) == a[1] > b[1] \/ (a[1] = b[1] /\ a[2] >= b[2])

Rows(table) == BagToSet(table)

\* The rows that come first in the ORDER BY: a DELETE that keeps the tail
FirstRows(table) ==
    {r \in Rows(table) : \A q \in Rows(table) : RanksAtLeast(Rank(r), Rank(q))}

\* lines 174-181: the rows that may come last in the ORDER BY of the DELETE
LastRows(table) ==
    {r \in Rows(table) : \A q \in Rows(table) : RanksAtLeast(Rank(q), Rank(r))}

RECURSIVE DeleteBeyondLimit(_, _)
\* DELETE FROM scores WHERE id NOT IN (... LIMIT 50): the possible outcomes
\* [table, gone] (rows of equal rank are ordered arbitrarily)
DeleteBeyondLimit(table, gone) ==
    IF BagCardinality(table) <= RetentionLimit
    THEN {[table |-> table, gone |-> gone]}
    ELSE UNION {DeleteBeyondLimit(table (-) SetToBag({r}), gone (+) SetToBag({r})) :
                   r \in LastRows(table)}

\* save_score: INSERT, DELETE, commit, return True; any exception (no open
\* connection) is logged and the call returns False
save_score(score) ==
    IF connection # "open"
    THEN /\ last_save' = [status |-> "False", row |-> Row(score), kept |-> FALSE]
         /\ UNCHANGED <<scores, connection, purged, saves>>
    ELSE \E o \in DeleteBeyondLimit(scores (+) SetToBag({Row(score)}), EmptyBag) :
            /\ scores' = o.table
            /\ purged' = purged \cup {Rank(r) : r \in BagToSet(o.gone)}
            /\ saves' = saves + 1
            /\ last_save' = [status |-> "True", row |-> Row(score),
                             kept |-> ~BagIn(Row(score), o.gone)]
            /\ UNCHANGED connection

NoSave == [status |-> "none", row |-> Row(NoRecord), kept |-> FALSE]

(* The outcome of an operation is [raised, failed, val, connection]: raised, *)
(* an exception leaves the method; failed, one was caught inside it.         *)

\* What self.connection.cursor() and the statements run on it do
Statement(conn) ==
    CASE conn = "none" -> "AttributeError"
      [] conn = "closed" -> "ProgrammingError"
      [] conn = "broken" -> "DatabaseError"
      [] OTHER -> "ok"

\* A method body that lets the exception leave
try_except_propagates(err, val, failure_value, conn) ==
    [raised |-> err # "ok", failed |-> FALSE, val |-> val, connection |-> conn]

\* try: ... return val / except Exception: log, return failure_value
try_except(err, val, failure_value, conn) ==
    IF err # "ok"
    THEN [raised |-> FALSE, failed |-> TRUE, val |-> failure_value, connection |-> conn]
    ELSE [raised |-> FALSE, failed |-> FALSE, val |-> val, connection |-> conn]

\* lines 62-83: sqlite3.connect fails and self.connection stays as it was,
\* or it succeeds and the tables are created, or the file is no database
initialize(conn) ==
    {try_except("ok", TRUE, FALSE, "open"),
     try_except("OperationalError", TRUE, FALSE, conn),
     try_except("DatabaseError", TRUE, FALSE, "broken")}

\* "if not self.connection: self.initialize()" of lines 200, 220 and 249
EnsureConnection(conn) ==
    IF conn = "none" THEN {o.connection : o \in initialize(conn)} ELSE {conn}

\* SELECT * FROM scores WHERE ...: the rows that the clause keeps, as a bag
Select(table, kept) ==
    [r \in kept |-> CopiesIn(r, table)]

\* lines 197-215; LIMIT cuts nothing off a table of MaxStored rows
get_user_scores(conn, user_name) ==
    {try_except(Statement(c), Select(scores, {r \in Rows(scores) : r.user_name = user_name}),
                EmptyBag, c) : c \in EnsureConnection(conn)}

\* lines 217-244; mode "" is the call without a mode
get_leaderboard(conn, mode) ==
    {try_except(Statement(c), Select(scores, {r \in Rows(scores) : mode = "" \/ r.mode = mode}),
                EmptyBag, c) : c \in EnsureConnection(conn)}

\* What stands for None where UserStats is expected
NoStats == [user_name |-> "", total_sessions |-> 0]

\* lines 246-286: None for a user without rows
get_user_stats(conn, user_name) ==
    LET rows == Select(scores, {r \in Rows(scores) : r.user_name = user_name})
    IN {try_except(Statement(c),
                   IF rows = EmptyBag THEN NoStats
                   ELSE [user_name |-> user_name,
                         total_sessions |-> BagCardinality(rows)],
                   NoStats, c) : c \in EnsureConnection(conn)}

\* lines 325-334: no initialize() here
get_all_users(conn) ==
    try_except(Statement(conn), {r.user_name : r \in Rows(scores)}, {}, conn)

\* lines 351-355: "if self.connection: self.connection.close()"; closing a
\* closed sqlite3 connection does nothing
close(conn) ==
    IF conn = "none"
    THEN [raised |-> FALSE, failed |-> FALSE, val |-> "None", connection |-> conn]
    ELSE [raised |-> FALSE, failed |-> FALSE, val |-> "None", connection |-> "closed"]

-----------------------------------------------------------------------------
(* ui/typing_interface_backup.py: the name prompt of the end handler *)

Names == {"", " ", "Ann", " Ann "}
Strip(name) == CASE name \in {"", " "} -> ""
                 [] name = " Ann " -> "Ann"
                 [] OTHER -> name
PromptAnswers == [ok : BOOLEAN, name : Names]
NoPrompt == [asked |-> FALSE, ok |-> FALSE, name |-> ""]
Asked(a) == [asked |-> TRUE, ok |-> a.ok, name |-> a.name]

\* A test of the name as entered, blanks included
NameAcceptedUnstripped(a) == a.ok /\ a.name # ""

\* line 660: "if ok and user_name.strip()"
NameAccepted(a) == a.ok /\ Strip(a.name) # ""

\* The record the handler holds afterwards: score_record.user_name is
\* assigned in place
NamedRecord(record, a) ==
    IF NameAccepted(a) THEN [record EXCEPT !.user_name = Strip(a.name)]
    ELSE record

\* TypingInterface.on_session_end: the prompt is answered with a
ask_user_name_and_save(t, a) ==
    /\ prompt' = Asked(a)
    /\ frame' = [frame EXCEPT ![t].i = AfterCallback(session_end_callbacks, @),
                              ![t].record = NamedRecord(@, a)]
    /\ IF NameAccepted(a)
       THEN save_score(NamedRecord(frame[t].record, a))
       ELSE UNCHANGED db_vars

-----------------------------------------------------------------------------
(* ui/typing_interface_backup.py: which controls are enabled *)

\* create_controls_panel and create_typing_area: lines 130 and 430 disable
\* the Stop button and the typing input; the rest is enabled as created
TypingInterface ==
    [start_button |-> TRUE, stop_button |-> FALSE, typing_input |-> FALSE,
     mode_combo |-> TRUE, difficulty_combo |-> TRUE, time_combo |-> TRUE]

\* lines 480-497: "if success:" and the setEnabled calls under it
TypingInterface_start_session(ti, success) ==
    IF success
    THEN [ti EXCEPT !.typing_input = TRUE, !.start_button = FALSE,
                    !.stop_button = TRUE, !.mode_combo = FALSE,
                    !.difficulty_combo = FALSE, !.time_combo = FALSE]
    ELSE ti

\* An end handler that leaves the typing input as it is
TypingInterface_on_session_end_input_kept(ti) ==
    [ti EXCEPT !.start_button = TRUE, !.stop_button = FALSE,
               !.mode_combo = TRUE, !.difficulty_combo = TRUE,
               !.time_combo = TRUE]

\* lines 617-624 of on_session_end
TypingInterface_on_session_end(ti) ==
    [ti EXCEPT !.typing_input = FALSE, !.start_button = TRUE,
               !.stop_button = FALSE, !.mode_combo = TRUE,
               !.difficulty_combo = TRUE, !.time_combo = TRUE]

-----------------------------------------------------------------------------
(* ui/statistics_widget.py and ui/leaderboard_widget.py. The widgets query  *)
(* the Database Manager of the engine, whose connection is open while the   *)
(* window exists.                                                           *)

\* get_user_stats and get_user_scores(current_user, 20) as refresh_data
\* calls them; LIMIT 20 cuts nothing off a table of MaxStored rows
StatisticsData(user_name) ==
    The(UNION {{[stats |-> a.val, scores |-> b.val] :
                   b \in get_user_scores(a.connection, user_name)} :
                 a \in get_user_stats(connection, user_name)})

\* statistics_widget.py lines 78-152: the value labels exist only if the
\* user has statistics when the widget is built
create_overview_stats(user_stats) ==
    [has_labels |-> user_stats # NoStats, overview |-> user_stats]

\* statistics_widget.py lines 175-222; refreshes counts the runs
refresh_data(sw, data) ==
    [sw EXCEPT !.overview = IF data.stats # NoStats /\ sw.has_labels
                            THEN data.stats ELSE @,
               !.table = data.scores,
               !.refreshes = @ + 1]

\* statistics_widget.py lines 15-29: setup_ui, then refresh_data
StatisticsWidget(user_name) ==
    [refresh_data([has_labels |-> create_overview_stats(StatisticsData(user_name).stats).has_labels,
                   overview |-> create_overview_stats(StatisticsData(user_name).stats).overview,
                   table |-> EmptyBag, refreshes |-> 0],
                  StatisticsData(user_name))
       EXCEPT !.refreshes = 0]

\* leaderboard_widget.py lines 85-151 with the filter on "All Modes"
refresh_leaderboard(lw) ==
    [lw EXCEPT !.table = The({o.val : o \in get_leaderboard(connection, "")})]

\* leaderboard_widget.py lines 15-19
LeaderboardWidget == refresh_leaderboard([table |-> EmptyBag])

-----------------------------------------------------------------------------
(* ui/main_window.py: the end handler of the Main Window *)

\* lines 419-438: the label, then both widgets are refreshed
on_session_end(w, score_record) ==
    [w EXCEPT !.session_status_label = Label("Session completed", 0, 0),
              !.statistics = refresh_data(@, StatisticsData(w.last_name)),
              !.leaderboard = refresh_leaderboard(@)]

\* lines 440-450, on currentChanged of the tab widget
on_tab_changed(w, index) ==
    CASE index = 1 ->
            [w EXCEPT !.tab = index,
                      !.statistics = refresh_data(@, StatisticsData(w.last_name))]
      [] index = 2 -> [w EXCEPT !.tab = index,
                                !.leaderboard = refresh_leaderboard(@)]
      [] OTHER -> [w EXCEPT !.tab = index]

AfterEndCallback(cb, score_record) ==
    CASE window.made /\ cb = "MainWindow.on_session_end" ->
            on_session_end(window, score_record)
      [] window.made /\ cb = "TypingInterface.on_session_end" ->
            [window EXCEPT !.typing_interface = TypingInterface_on_session_end(@)]
      [] OTHER -> window

-----------------------------------------------------------------------------
(* SpeedEngine.end_session, reset_session and the queries *)

\* lines 230-234 with _finalize_session
EndSessionBody(t) ==
    /\ pc[t] = "idle"
    /\ lock = Free
    /\ cb_log' = [cb_log EXCEPT ![t] = <<>>]
    /\ IF ~is_session_active
       THEN /\ result' = [result EXCEPT ![t] = Returned("end_session", "None")]
            /\ UNCHANGED <<current_session, frame, pc, lock>>
       ELSE /\ current_session' = FinalizedSession(current_session, now)
            /\ frame' = [frame EXCEPT ![t] = [NoFrame EXCEPT
                            !.op = "end_session",
                            !.record = ScoreRecord(current_session, now),
                            !.i = 1]]
            /\ pc' = [pc EXCEPT ![t] = "end_callbacks"]
            /\ lock' = t
            /\ result' = [result EXCEPT ![t] = NoResult]
    /\ UNCHANGED <<files, generator_vars, callback_vars, now, origin, db_vars,
                   prompt, out, twin, held, dialog, window>>

\* Session-end callbacks that call the engine they are registered with; all
\* five operations start with "with self._lock:" (lines 92, 123, 230, 474;
\* cleanup calls reset_session, line 483)
ReentrantCallbacks ==
    {"calls start_session", "calls start_time_based_session",
     "calls end_session", "calls reset_session", "calls cleanup"}

\* lines 237-241: one callback of the loop; what it raises is caught
EndSessionCallback(t) ==
    /\ pc[t] = "end_callbacks"
    /\ frame[t].i <= Len(session_end_callbacks)
    /\ session_end_callbacks[frame[t].i] \notin ReentrantCallbacks
    /\ cb_log' = [cb_log EXCEPT ![t] = Append(@, session_end_callbacks[frame[t].i])]
    /\ IF session_end_callbacks[frame[t].i] = "TypingInterface.on_session_end"
       THEN \E a \in PromptAnswers : ask_user_name_and_save(t, a)
       ELSE /\ frame' = [frame EXCEPT
                            ![t].i = AfterCallback(session_end_callbacks, @)]
            /\ UNCHANGED <<db_vars, prompt>>
    /\ window' = AfterEndCallback(session_end_callbacks[frame[t].i], frame[t].record)
    /\ UNCHANGED <<files, generator_vars, current_session, lock, callback_vars,
                   now, pc, result, origin, out, twin, held, dialog>>

\* lines 237-239 with a callback that calls the engine: the call reaches
\* "with self._lock:" while end_session holds the lock (line 77: a
\* threading.Lock, which its holder cannot take a second time) and waits
EndSessionCallbackReenters(t) ==
    /\ pc[t] = "end_callbacks"
    /\ frame[t].i <= Len(session_end_callbacks)
    /\ session_end_callbacks[frame[t].i] \in ReentrantCallbacks
    /\ cb_log' = [cb_log EXCEPT ![t] = Append(@, session_end_callbacks[frame[t].i])]
    /\ lock # Free
    /\ pc' = [pc EXCEPT ![t] = "blocked"]
    /\ UNCHANGED <<files, generator_vars, current_session, lock, callback_vars,
                   now, frame, result, origin, db_vars, prompt, out, twin, held,
                   dialog, window>>

\* line 243
EndSessionReturn(t) ==
    /\ pc[t] = "end_callbacks"
    /\ frame[t].i > Len(session_end_callbacks)
    /\ pc' = [pc EXCEPT ![t] = "idle"]
    /\ result' = [result EXCEPT ![t] =
            [op |-> "end_session", arg |-> 0, status |-> "record",
             record |-> frame[t].record, num |-> 0]]
    /\ frame' = [frame EXCEPT ![t] = NoFrame]
    /\ cb_log' = [cb_log EXCEPT ![t] = <<>>]
    /\ lock' = Free
    /\ UNCHANGED <<files, generator_vars, current_session, callback_vars, now,
                   origin, db_vars, prompt, out, twin, held, dialog, window>>

\* lines 474-479
ResetBody(t) ==
    /\ pc[t] = "idle"
    /\ lock = Free
    /\ current_session' = NoSession
    /\ result' = [result EXCEPT ![t] = Returned("reset_session", "None")]
    /\ cb_log' = [cb_log EXCEPT ![t] = <<>>]
    /\ UNCHANGED <<files, generator_vars, lock, callback_vars, now, pc, frame,
                   origin, db_vars, prompt, twin, held, dialog, window>>

reset_session(t) ==
    /\ ResetBody(t)
    /\ UNCHANGED out

\* reset_session, with out the GameSession object that the engine let go
\* of, as a holder of a reference to it finds it afterwards
\* (get_current_session returns the object itself, line 429): the engine
\* has assigned none of its fields
reset_session_discarding(t) ==
    /\ ResetBody(t)
    /\ out' = [op |-> "reset_session", session |-> current_session]

\* A query that stops the session when no time remains
GetTimeRemainingStops(t) ==
    /\ pc[t] = "idle"
    /\ result' = [result EXCEPT ![t] =
            [op |-> "get_time_remaining", arg |-> 0, status |-> "number",
             record |-> NoRecord, num |-> get_time_remaining]]
    /\ current_session' =
          IF is_session_active /\ get_time_remaining = 0
          THEN FinalizedSession(current_session, now)
          ELSE current_session
    /\ UNCHANGED <<files, generator_vars, lock, callback_vars, now, pc, frame,
                   origin, cb_log, db_vars, prompt, out, twin, held, dialog, window>>

\* lines 431-438, called by the display timers of the windows
GetTimeRemaining(t) ==
    /\ pc[t] = "idle"
    /\ result' = [result EXCEPT ![t] =
            [op |-> "get_time_remaining", arg |-> 0, status |-> "number",
             record |-> NoRecord, num |-> get_time_remaining]]
    /\ UNCHANGED <<files, generator_vars, current_session, lock, callback_vars,
                   now, pc, frame, origin, cb_log, db_vars, prompt, out, twin, held, dialog, window>>

GetElapsedTime(t) ==
    /\ pc[t] = "idle"
    /\ result' = [result EXCEPT ![t] =
            [op |-> "get_elapsed_time", arg |-> 0, status |-> "number",
             record |-> NoRecord, num |-> get_elapsed_time]]
    /\ UNCHANGED <<files, generator_vars, current_session, lock, callback_vars,
                   now, pc, frame, origin, cb_log, db_vars, prompt, out, twin, held, dialog, window>>

register_update_callback(cb) ==
    /\ Len(update_callbacks) < MaxCallbacks
    /\ update_callbacks' = Append(update_callbacks, cb)
    /\ UNCHANGED <<files, generator_vars, current_session, lock,
                   session_end_callbacks, now, pc, frame, result, origin,
                   cb_log, db_vars, prompt, out, twin, held, dialog, window>>

register_session_end_callback(cb) ==
    /\ Len(session_end_callbacks) < MaxCallbacks
    /\ session_end_callbacks' = Append(session_end_callbacks, cb)
    /\ UNCHANGED <<files, generator_vars, current_session, lock,
                   update_callbacks, now, pc, frame, result, origin, cb_log,
                   db_vars, prompt, out, twin, held, dialog, window>>

\* The clock advances
Tick ==
    /\ now < MaxTime * TickSeconds
    /\ now' = now + TickSeconds
    /\ UNCHANGED <<files, generator_vars, current_session, lock, callback_vars,
                   pc, frame, result, origin, cb_log, db_vars, prompt, out, twin, held, dialog, window>>

-----------------------------------------------------------------------------
(* The engine as constructed: SpeedEngine.__init__ *)

NoSeed == -1

\* A generator that takes its state from the system whatever the seed
RandomUnseeded(seed, entropy) == entropy

\* random.Random(seed): the state a new generator starts in; without a seed
\* it is taken from the system's entropy
Random(seed, entropy) == IF seed = NoSeed THEN entropy ELSE seed

NewGenerator(seed) ==
    [cache |-> [d \in DifficultySet |-> NotCached], loaded |-> FALSE,
     allow |-> FALSE, rng |-> seed, loads |-> 0]

NoOutput ==
    [op |-> "none", weights |-> <<>>, total_count |-> 0, ok |-> TRUE,
     val |-> <<>>, err |-> "none"]

NoTwin == [made |-> FALSE, seeds |-> <<NoSeed, NoSeed>>, calls |-> 0]

NoHeld == [made |-> FALSE]

NoDialog == [made |-> FALSE]

NoWindow == [made |-> FALSE]

\* No session, no caller at work
SessionFields ==
    /\ current_session = NoSession
    /\ lock = Free
    /\ now = 0
    /\ pc = [t \in Threads |-> "idle"]
    /\ frame = [t \in Threads |-> NoFrame]
    /\ result = [t \in Threads |-> NoResult]
    /\ origin = "none"
    /\ cb_log = [t \in Threads |-> <<>>]
    /\ prompt = NoPrompt

\* An empty scores table behind a DatabaseManager whose connection is conn
TableFields(conn) ==
    /\ scores = EmptyBag
    /\ connection = conn
    /\ purged = {}
    /\ saves = 0
    /\ last_save = NoSave

\* No session, no caller at work, an empty scores table, initialize() done
OtherFields ==
    /\ SessionFields
    /\ TableFields("open")

\* lines 61-72: the engine's generator over word files fs, seeded with seed
EngineGenerator(fs, seed) ==
    /\ files = fs
    /\ \E l \in {load_default_sources(NewGenerator(seed), TRUE)} :
          /\ generator = l.ok
          /\ word_cache = l.g.cache
          /\ sources_loaded = l.g.loaded
          /\ allow_phrases = l.g.allow
          /\ rng = l.g.rng

\* lines 58-77
EngineFields(fs, seed) ==
    /\ EngineGenerator(fs, seed)
    /\ OtherFields
    /\ out = NoOutput
    /\ twin = NoTwin
    /\ held = NoHeld
    /\ dialog = NoDialog
    /\ window = NoWindow

\* lines 32-33
InitEngine(fs, seed) ==
    /\ EngineFields(fs, seed)
    /\ update_callbacks = <<>>
    /\ session_end_callbacks = <<>>

AllMissing == [d \in DifficultySet |-> "missing"]

AllDenied == [d \in DifficultySet |-> "denied"]

CallbackKinds == {"ok", "raises"}

(* The event loop: one caller, "ui" *)

SpecModes == {"speed_burst", "accuracy_focus"}
SpecLevels == {"beginner"}

Init == InitEngine(AllMissing, 0)

Next ==
    \/ \E mode \in SpecModes, level \in SpecLevels :
          start_session("ui", "Anonymous", mode, level, 60)
    \/ \E mode \in SpecModes, level \in SpecLevels :
          start_time_based_session("ui", "Anonymous", mode, level, 1)
    \/ \E typed \in TypedTexts : UpdateEnter("ui", typed)
    \/ UpdateWrite("ui")
    \/ UpdateStats("ui")
    \/ UpdateReturn("ui")
    \/ EndSessionBody("ui")
    \/ EndSessionReturn("ui")
    \/ reset_session("ui")
    \/ GetTimeRemaining("ui")
    \/ GetElapsedTime("ui")
    \/ Tick

Spec == Init /\ [][Next]_vars

(* The event loop with observers, of an engine whose word files cannot be   *)
(* read: the texts are the legacy Word Manager's                            *)

InitDenied == InitEngine(AllDenied, 0)

NextCallbacks ==
    \/ start_time_based_session("ui", "Anonymous", "timed_challenge", "beginner", 1)
    \/ UpdateEnter("ui", [len |-> 1, correct |-> 1])
    \/ UpdateWrite("ui")
    \/ UpdateStats("ui")
    \/ UpdateCallback("ui")
    \/ UpdateReturn("ui")
    \/ EndSessionBody("ui")
    \/ EndSessionCallback("ui")
    \/ EndSessionReturn("ui")
    \/ reset_session("ui")
    \/ \E cb \in CallbackKinds : register_update_callback(cb)
    \/ \E cb \in CallbackKinds : register_session_end_callback(cb)
    \/ Tick

SpecCallbacks == InitDenied /\ [][NextCallbacks]_vars

(* Concurrent callers of that engine *)

NextConcurrent ==
    \/ \E t \in Callers, mode \in SpecModes, level \in SpecLevels :
          start_session(t, t, mode, level, 60)
    \/ \E t \in Callers, mode \in SpecModes, level \in SpecLevels :
          start_time_based_session(t, t, mode, level, 1)
    \/ \E t \in Callers : EndSessionBody(t)
    \/ \E t \in Callers : EndSessionReturn(t)
    \/ \E t \in Callers : reset_session(t)
    \/ Tick

SpecConcurrent == InitDenied /\ [][NextConcurrent]_vars

(* Concurrent callers that also send typed text: update_typed_text takes    *)
(* no lock, so its statements interleave with end_session and reset_session *)
(* of the other caller. One update and one end callback are registered.     *)

InitRace ==
    /\ EngineFields(AllDenied, 0)
    /\ update_callbacks = <<"ok">>
    /\ session_end_callbacks = <<"ok">>

NextRace ==
    \/ \E t \in Callers :
          start_time_based_session(t, t, "timed_challenge", "beginner", 1)
    \/ \E t \in Callers : UpdateEnter(t, [len |-> 1, correct |-> 1])
    \/ \E t \in Callers : UpdateWrite(t)
    \/ \E t \in Callers : UpdateStats(t)
    \/ \E t \in Callers : UpdateCallback(t)
    \/ \E t \in Callers : UpdateReturn(t)
    \/ \E t \in Callers : EndSessionBody(t)
    \/ \E t \in Callers : EndSessionCallback(t)
    \/ \E t \in Callers : EndSessionReturn(t)
    \/ \E t \in Callers : reset_session(t)
    \/ Tick

SpecRace == InitRace /\ [][NextRace]_vars

(* An engine whose session-end callbacks call it back *)

EndCallbackLists ==
    {<<a>> : a \in ReentrantCallbacks \cup {"ok"}}
      \cup {<<a, b>> : a \in {"ok"}, b \in ReentrantCallbacks}

InitReentrant ==
    /\ EngineFields(AllDenied, 0)
    /\ update_callbacks = <<"ok">>
    /\ session_end_callbacks \in EndCallbackLists

NextReentrant ==
    \/ start_time_based_session("ui", "Anonymous", "timed_challenge", "beginner", 1)
    \/ UpdateEnter("ui", [len |-> 1, correct |-> 1])
    \/ UpdateWrite("ui")
    \/ UpdateStats("ui")
    \/ UpdateCallback("ui")
    \/ UpdateReturn("ui")
    \/ EndSessionBody("ui")
    \/ EndSessionCallback("ui")
    \/ EndSessionCallbackReenters("ui")
    \/ EndSessionReturn("ui")
    \/ reset_session("ui")
    \/ Tick

SpecReentrant == InitReentrant /\ [][NextReentrant]_vars

-----------------------------------------------------------------------------
(* The Main Window: its engine, with the Typing Interface's handlers        *)
(* registered before its own (ui/main_window.py, create_tabs and            *)
(* setup_connections)                                                       *)

InitWindow ==
    /\ EngineFields(AllMissing, 0)
    /\ update_callbacks = <<"TypingInterface.on_performance_update",
                            "MainWindow.on_session_update">>
    /\ session_end_callbacks = <<"TypingInterface.on_session_end",
                                 "MainWindow.on_session_end">>

\* TypingInterface.start_session_clicked and start_session
start_session_clicked(mode, level, minutes) ==
    /\ saves < MaxSessions
    /\ StartBody("ui", "start_time_based_session", "Anonymous", mode, level,
                 minutes)
    /\ window' = IF window.made
                 THEN [window EXCEPT !.typing_interface =
                          TypingInterface_start_session(@,
                              result'["ui"].status = "True")]
                 ELSE window

\* TypingInterface.on_text_changed
on_text_changed(typed) == is_session_active /\ UpdateEnter("ui", typed)

\* TypingInterface.stop_session
stop_session == is_session_active /\ EndSessionBody("ui")

NextUI ==
    \/ start_session_clicked("timed_challenge", "beginner", 1)
    \/ on_text_changed([len |-> 1, correct |-> 1])
    \/ UpdateWrite("ui")
    \/ UpdateStats("ui")
    \/ UpdateCallback("ui")
    \/ UpdateReturn("ui")
    \/ stop_session
    \/ EndSessionCallback("ui")
    \/ EndSessionReturn("ui")
    \/ reset_session("ui")
    \/ Tick

SpecUI == InitWindow /\ [][NextUI]_vars

\* The same handlers, and a reset whose discarded session is looked at
NextReset ==
    \/ start_session_clicked("timed_challenge", "beginner", 1)
    \/ on_text_changed([len |-> 1, correct |-> 1])
    \/ UpdateWrite("ui")
    \/ UpdateStats("ui")
    \/ UpdateCallback("ui")
    \/ UpdateReturn("ui")
    \/ stop_session
    \/ EndSessionCallback("ui")
    \/ EndSessionReturn("ui")
    \/ reset_session_discarding("ui")
    \/ Tick

SpecReset == InitWindow /\ [][NextReset]_vars

-----------------------------------------------------------------------------
(* The scores table under a run of save_score calls *)

DbRanks == {<<2, 900>>, <<2, 1000>>, <<4, 900>>}

DbScore(rank) ==
    [NoRecord EXCEPT !.none = FALSE, !.user_name = "Ann", !.wpm = rank[1],
                     !.accuracy = rank[2], !.level = "beginner",
                     !.mode = "timed_challenge", !.duration = 60,
                     !.total_characters = 1, !.correct_characters = 1]

SaveScore(score) ==
    /\ saves < MaxSaves
    /\ save_score(score)
    /\ UNCHANGED <<files, generator_vars, current_session, lock, callback_vars,
                   now, pc, frame, result, origin, cb_log, prompt, out, twin, held, dialog, window>>

NextDb == \E rank \in DbRanks : SaveScore(DbScore(rank))

SpecDb == Init /\ [][NextDb]_vars

-----------------------------------------------------------------------------
(* Session starts of an idle engine for every mode, level and time option, *)
(* over engines whose word files are in different states                    *)

StartFiles ==
    {AllMissing, AllDenied,
     [d \in DifficultySet |-> "words"],
     [d \in DifficultySet |-> "phrases"],
     [d \in DifficultySet |-> "empty"],
     [d \in DifficultySet |-> IF d = "simple" THEN "words" ELSE "empty"]}

InitStart == \E fs \in StartFiles, seed \in 0..MaxSeed : InitEngine(fs, seed)

NextStart ==
    \/ \E mode \in GameMode, level \in DifficultyLevel :
          ~is_session_active /\ start_session("ui", "Anonymous", mode, level, 60)
    \/ \E mode \in GameMode, level \in DifficultyLevel, minutes \in TimeOptionSet :
          /\ ~is_session_active
          /\ start_time_based_session("ui", "Anonymous", mode, level, minutes)
    \/ is_session_active /\ reset_session("ui")

SpecStart == InitStart /\ [][NextStart]_vars

-----------------------------------------------------------------------------
(* Calls of the generator *)

MixedDifficulties == <<"simple", "medium", "hard">>

WeightMaps ==
    {<<[d |-> MixedDifficulties[i], w |-> w]>> : i \in 1..3, w \in 0..MaxWeight}
    \cup {<<[d |-> MixedDifficulties[p[1]], w |-> w1],
            [d |-> MixedDifficulties[p[2]], w |-> w2]>> :
             p \in {q \in (1..3) \X (1..3) : q[1] # q[2]},
             w1 \in 0..MaxWeight, w2 \in 0..MaxWeight}
    \cup {<<[d |-> "simple", w |-> w1], [d |-> "medium", w |-> w2],
            [d |-> "hard", w |-> w3]>> :
             w1 \in 0..MaxWeight, w2 \in 0..MaxWeight, w3 \in 0..MaxWeight}

GenerateMixed(weights, total_count) ==
    \E r \in {generate_mixed(G, weights, total_count)} :
       /\ out' = [op |-> "generate_mixed", weights |-> weights,
                  total_count |-> total_count, ok |-> r.ok, val |-> r.val,
                  err |-> r.err]
       /\ SetG(r.g)
       /\ UNCHANGED <<files, generator, current_session, lock, callback_vars,
                      now, pc, frame, result, origin, cb_log, db_vars, prompt,
                      twin, held, dialog, window>>

InitGen == \E seed \in 0..MaxSeed : InitEngine(AllMissing, seed)

NextGen ==
    \E weights \in WeightMaps, total_count \in 1..MaxTotal :
        GenerateMixed(weights, total_count)

SpecGen == InitGen /\ [][NextGen]_vars

(* Calls of generate_mixed on a generator one of whose word files yields    *)
(* nothing: it holds no entry, or it cannot be read                         *)

FailingStates == {"empty", "denied"}

InitCompensate ==
    \E bad \in {MixedDifficulties[i] : i \in 1..3}, st \in FailingStates :
        InitEngine([d \in DifficultySet |-> IF d = bad THEN st ELSE "words"], 0)

SpecCompensate == InitCompensate /\ [][NextGen]_vars

-----------------------------------------------------------------------------
(* Properties of the engine *)

Active(s) == ~s.none /\ s.is_active

StartOps == {"start_session", "start_time_based_session"}

\* C1: at most one session is active at any time: while a session is active
\* every start_session and start_time_based_session call returns false and
\* leaves the session (target text, start time, typed text, planned
\* duration, active flag and every other field) as it was, and no step
\* puts another active session in the place of the active one.
C1_OneActiveSession ==
    [][Active(current_session) =>
         /\ Active(current_session') =>
               /\ current_session'.session_id = current_session.session_id
               /\ current_session'.start_time = current_session.start_time
               /\ current_session'.target_text = current_session.target_text
               /\ current_session'.duration_seconds = current_session.duration_seconds
         /\ (result'["ui"].op \in StartOps /\ result'["ui"] # result["ui"]) =>
               /\ result'["ui"].status = "False"
               /\ current_session' = current_session]_vars

\* A start was refused after the planned duration of the active session,
\* which holds typed text, had run out
C1_Witness ==
    /\ Active(current_session)
    /\ result["ui"].op \in StartOps
    /\ result["ui"].status = "False"
    /\ current_session.typed_text # NoTyped
    /\ now - current_session.start_time >= current_session.duration_seconds

\* C2: of concurrent start_session and start_time_based_session calls on an
\* idle engine exactly one returns true and every other returns false, and
\* the current session is the one the successful caller created: the call
\* that finds no active session returns true and leaves its own session
\* active, a call that finds an active session returns false.
C2_ConcurrentStarts ==
    [][\A t \in Callers :
         (result'[t].op \in StartOps /\ result'[t] # result[t]) =>
            IF Active(current_session)
            THEN result'[t].status = "False" /\ current_session' = current_session
            ELSE /\ result'[t].status = "True"
                 /\ Active(current_session')
                 /\ current_session'.user_name = t]_vars

UpdateCompletes ==
    /\ pc["ui"] \in {"update_write", "update_stats", "update_callbacks"}
    /\ pc'["ui"] = "idle"

EndCompletes == pc["ui"] = "end_callbacks" /\ pc'["ui"] = "idle"

\* C4 as stated: on every update_typed_text during an active session and on
\* every successful end_session each registered callback of the kind runs
\* exactly once, in registration order, whether or not a callback raises,
\* and the operation completes.
C4_EveryUpdateNotifies ==
    [][/\ UpdateCompletes =>
             /\ cb_log["ui"] = update_callbacks
             /\ result'["ui"].status # "raised"
       /\ EndCompletes =>
             /\ cb_log["ui"] = session_end_callbacks
             /\ result'["ui"].status = "record"]_vars

\* C4 as amended: an update_typed_text during an active session runs the
\* update callbacks only when the clock has advanced since the session
\* started (elapsed time > 0); then, and on every successful end_session,
\* each registered callback of the kind runs exactly once, in registration
\* order, whether or not a callback raises, and the operation completes.
\* An update at elapsed time 0 stores the typed text and runs no callback.
C4_CallbacksInOrder ==
    [][/\ (pc["ui"] = "update_write" /\ pc'["ui"] = "update_stats") =>
             now > current_session.start_time
       /\ (pc["ui"] = "update_write" /\ pc'["ui"] = "idle") =>
             /\ now <= current_session.start_time
             /\ cb_log["ui"] = <<>>
             /\ current_session'.typed_text = frame["ui"].typed
             /\ result'["ui"] = Returned("update_typed_text", "None")
       /\ (pc["ui"] = "update_callbacks" /\ pc'["ui"] = "idle") =>
             /\ cb_log["ui"] = update_callbacks
             /\ result'["ui"] = Returned("update_typed_text", "done")
       /\ (pc["ui"] = "update_stats" /\ pc'["ui"] # "update_stats") =>
             pc'["ui"] = "update_callbacks"
       /\ EndCompletes =>
             /\ cb_log["ui"] = session_end_callbacks
             /\ result'["ui"].status = "record"]_vars

\* An update is about to return after a raising callback and the callback
\* registered after it have both run
C4_Witness ==
    /\ pc["ui"] = "update_callbacks"
    /\ update_callbacks = <<"raises", "ok">>
    /\ frame["ui"].i > Len(update_callbacks)
    /\ cb_log["ui"] = <<"raises", "ok">>

\* C5: end_session with no active session (none started, the last one ended
\* or reset) returns nothing, runs no session-end callback and leaves the
\* engine as it is; a round of session-end callbacks with a score record
\* begins only by ending an active session, which makes it inactive, so a
\* session gets at most one record and one round.
C5_EndWhenInactive ==
    [][/\ (pc["ui"] = "idle" /\ ~Active(current_session)
           /\ result'["ui"].op = "end_session" /\ result'["ui"] # result["ui"]) =>
             /\ result'["ui"] = Returned("end_session", "None")
             /\ cb_log'["ui"] = <<>>
             /\ UNCHANGED <<current_session, pc, frame, lock, callback_vars,
                            db_vars, generator_vars, now>>
       /\ (pc'["ui"] = "end_callbacks" /\ pc["ui"] # "end_callbacks") =>
             /\ Active(current_session)
             /\ ~Active(current_session')
             /\ ~frame'["ui"].record.none
       /\ (pc["ui"] = "end_callbacks" \/ pc'["ui"] = "end_callbacks") =>
             ~Active(current_session')]_vars

\* end_session has returned nothing for a session that had already ended,
\* with two session-end callbacks registered
C5_Witness ==
    /\ result["ui"] = Returned("end_session", "None")
    /\ ~current_session.none
    /\ ~current_session.is_active
    /\ Len(session_end_callbacks) = 2
    /\ pc["ui"] = "idle"

\* The step is the Typing Interface's session-end handler
HandlerStep ==
    /\ pc["ui"] = "end_callbacks"
    /\ frame["ui"].i <= Len(session_end_callbacks)
    /\ session_end_callbacks[frame["ui"].i] = "TypingInterface.on_session_end"
    /\ frame'["ui"].i = frame["ui"].i + 1

C8_StartNeverFails ==
    result["ui"].op \in StartOps =>
        /\ result["ui"].status = "True"
        /\ Active(current_session)
        /\ ~generator => origin = "legacy"

C10_MixedReturnsTotalCount ==
    (/\ out.op = "generate_mixed"
     /\ out.total_count > 0
     /\ out.weights # <<>>
     /\ \A i \in 1..Len(out.weights) : out.weights[i].w >= 0
     /\ SumWeights(out.weights) > 0) =>
        /\ out.ok
        /\ Len(out.val) = out.total_count
        /\ \A i \in 1..Len(out.weights) :
              LET exact == out.total_count * out.weights[i].w
                  drawn == difficulty_count(out.weights, i, out.total_count)
                          * SumWeights(out.weights)
              IN exact - SumWeights(out.weights) < drawn
                 /\ drawn < exact + SumWeights(out.weights)

-----------------------------------------------------------------------------
(* Calls of a WordGenerator as constructed: nothing is loaded before the    *)
(* first call                                                               *)

\* speed_word_generator.py lines 25-31
GeneratorFields(fs, seed) ==
    /\ files = fs
    /\ generator = TRUE
    /\ word_cache = NewGenerator(seed).cache
    /\ sources_loaded = NewGenerator(seed).loaded
    /\ allow_phrases = NewGenerator(seed).allow
    /\ rng = NewGenerator(seed).rng
    /\ update_callbacks = <<>>
    /\ session_end_callbacks = <<>>
    /\ OtherFields
    /\ out = NoOutput

InitGenerator(fs, seed) ==
    /\ GeneratorFields(fs, seed)
    /\ twin = NoTwin
    /\ held = NoHeld
    /\ dialog = NoDialog
    /\ window = NoWindow

\* What the caller sees of a call, with what the call found and did about
\* the word sources
Called(op, args, r) ==
    [op |-> op, args |-> args, ok |-> r.ok, val |-> r.val, err |-> r.err,
     loaded_before |-> sources_loaded, loads |-> r.g.loads]

Call(op, args, r) ==
    /\ out' = Called(op, args, r)
    /\ SetG(r.g)
    /\ UNCHANGED <<files, generator, current_session, lock, callback_vars,
                   now, pc, frame, result, origin, cb_log, db_vars, prompt,
                   twin, held, dialog, window>>

GenerateWords(d, count) ==
    \E r \in {generate_words(G, d, count)} :
        Call("generate_words", [d |-> d, count |-> count], r)

LoadDefaultSources(allow) ==
    \E r \in {load_default_sources(G, allow)} :
        Call("load_default_sources", [allow |-> allow], r)

ReloadSources == Call("reload_sources", [none |-> TRUE], GOk(<<>>, reload_sources(G)))

Uniform(st) == [d \in DifficultySet |-> st]

WordFiles ==
    {Uniform("missing"), Uniform("words"), Uniform("repeats"), Uniform("empty"),
     Uniform("denied"),
     [d \in DifficultySet |->
         CASE d = "simple" -> "words" [] d = "medium" -> "empty"
           [] d = "hard" -> "denied" [] OTHER -> "phrases"]}

InitWords == \E fs \in WordFiles, seed \in 0..MaxSeed : InitGenerator(fs, seed)

NextWords ==
    \/ \E d \in DifficultySet, count \in -1..MaxCount : GenerateWords(d, count)
    \/ \E allow \in BOOLEAN : LoadDefaultSources(allow)
    \/ ReloadSources

SpecWords == InitWords /\ [][NextWords]_vars

(* Calls of generate_for_session at the Speed Engine's target rates *)

SessionSeconds == {15 * q : q \in 1..MaxQuarters}

TargetWpms == {_get_target_wpm_for_difficulty(level) : level \in DifficultyLevel}

GenerateForSession(d, duration_seconds, target_wpm) ==
    \E r \in {generate_for_session(G, d, duration_seconds, target_wpm)} :
        Call("generate_for_session",
             [d |-> d, duration_seconds |-> duration_seconds,
              target_wpm |-> target_wpm], r)

InitSession == \E seed \in 0..MaxSeed : InitGenerator(Uniform("missing"), seed)

NextSession ==
    \E d \in DifficultySet, duration_seconds \in SessionSeconds,
       target_wpm \in TargetWpms :
        GenerateForSession(d, duration_seconds, target_wpm)

SpecSession == InitSession /\ [][NextSession]_vars

(* Calls of generate_paragraph *)

GenerateParagraph(d, lines, max_line_chars) ==
    \E r \in {generate_paragraph(G, d, lines, max_line_chars)} :
        Call("generate_paragraph",
             [d |-> d, lines |-> lines, max_line_chars |-> max_line_chars], r)

ParagraphFiles ==
    {Uniform("missing"), Uniform("words"), Uniform("phrases"), Uniform("repeats")}

InitParagraph ==
    \E fs \in ParagraphFiles, seed \in 0..MaxSeed : InitGenerator(fs, seed)

NextParagraph ==
    \E d \in DifficultySet, lines \in 1..MaxLines,
       max_line_chars \in 1..MaxLineChars :
        GenerateParagraph(d, lines, max_line_chars)

SpecParagraph == InitParagraph /\ [][NextParagraph]_vars

(* Two WordGenerator instances over the same word files, driven through    *)
(* the same calls                                                           *)

Seeds == {NoSeed} \cup 0..MaxSeed

InitTwin ==
    \E fs \in {Uniform("missing"), Uniform("words")}, seed1, seed2 \in Seeds,
       entropy1, entropy2 \in 0..MaxSeed :
        /\ GeneratorFields(fs, Random(seed1, entropy1))
        /\ twin = [made |-> TRUE, seeds |-> <<seed1, seed2>>, calls |-> 0,
                   g |-> NewGenerator(Random(seed2, entropy2)),
                   out |-> NoOutput]
        /\ held = NoHeld
        /\ dialog = NoDialog
        /\ window = NoWindow

\* The same call on both: r1 is what the first generator returns, r2 what
\* the second returns
Both(op, args, r1, r2) ==
    /\ twin.made
    /\ twin.calls < MaxCalls
    /\ out' = Called(op, args, r1)
    /\ SetG(r1.g)
    /\ twin' = [twin EXCEPT
                   !.calls = @ + 1,
                   !.g = [r2.g EXCEPT !.loads = 0],
                   !.out = [op |-> op, args |-> args, ok |-> r2.ok,
                            val |-> r2.val, err |-> r2.err,
                            loaded_before |-> twin.g.loaded,
                            loads |-> r2.g.loads]]
    /\ UNCHANGED <<files, generator, current_session, lock, callback_vars,
                   now, pc, frame, result, origin, cb_log, db_vars, prompt,
                   held, dialog, window>>

TwinDifficulties == {"simple", "medium"}

TwinWeights ==
    {<<[d |-> "simple", w |-> 2], [d |-> "medium", w |-> 1]>>,
     <<[d |-> "medium", w |-> 1], [d |-> "simple", w |-> 1]>>}

NextTwin ==
    \/ \E d \in TwinDifficulties, count \in {2, 5} :
          \E r1 \in {generate_words(G, d, count)},
             r2 \in {generate_words(twin.g, d, count)} :
              Both("generate_words", [d |-> d, count |-> count], r1, r2)
    \/ \E d \in TwinDifficulties :
          \E r1 \in {generate_for_session(G, d, 60, 25)},
             r2 \in {generate_for_session(twin.g, d, 60, 25)} :
              Both("generate_for_session", [d |-> d], r1, r2)
    \/ \E d \in TwinDifficulties :
          \E r1 \in {generate_for_time_selection(G, d, 1)},
             r2 \in {generate_for_time_selection(twin.g, d, 1)} :
              Both("generate_for_time_selection", [d |-> d], r1, r2)
    \/ \E d \in TwinDifficulties :
          \E r1 \in {generate_paragraph(G, d, 2, MaxLineChars)},
             r2 \in {generate_paragraph(twin.g, d, 2, MaxLineChars)} :
              Both("generate_paragraph", [d |-> d], r1, r2)
    \/ \E weights \in TwinWeights :
          \E r1 \in {generate_mixed(G, weights, 3)},
             r2 \in {generate_mixed(twin.g, weights, 3)} :
              Both("generate_mixed", [weights |-> weights], r1, r2)

SpecTwin == InitTwin /\ [][NextTwin]_vars

(* Every kind of call, on generators that start unloaded, some of them     *)
(* over word files that yield nothing                                       *)

GenerationOps ==
    {"generate_words", "generate_for_session", "generate_for_time_selection",
     "generate_paragraph", "generate_mixed"}

NextLoad ==
    \/ \E allow \in BOOLEAN : LoadDefaultSources(allow)
    \/ ReloadSources
    \/ \E d \in DifficultySet, count \in {0, 2} : GenerateWords(d, count)
    \/ \E d \in DifficultySet : GenerateForSession(d, 60, 25)
    \/ \E d \in DifficultySet :
          \E r \in {generate_for_time_selection(G, d, 1)} :
              Call("generate_for_time_selection", [d |-> d, minutes |-> 1], r)
    \/ \E d \in DifficultySet : GenerateParagraph(d, 2, MaxLineChars)
    \/ \E weights \in TwinWeights :
          \E r \in {generate_mixed(G, weights, 3)} :
              Call("generate_mixed", [weights |-> weights, total_count |-> 3], r)

SpecLoad == InitWords /\ [][NextLoad]_vars

-----------------------------------------------------------------------------
(* The planned duration: _calculate_dynamic_duration applied to texts of    *)
(* every size, and the sessions that start_session creates for short and    *)
(* long requested durations                                                 *)

WordStep == 25          \* words between two sizes of text given to _calculate_dynamic_duration

TextWords == {0, 1, 8, 9} \cup {WordStep * k : k \in 1..MaxWordSteps}

\* A text of a given number of words on a given number of lines: the words
\* are on the first line, the other lines are empty
TextOf(words, lines) ==
    [i \in 1..lines |->
        IF i = 1 THEN [k \in 1..words |-> <<<<"text", k>>>>] ELSE <<>>]

DurationInputs ==
    {x \in [words : TextWords, lines : 0..MaxTextLines, level : DifficultyLevel,
            mode : GameMode] : x.words > 0 => x.lines > 0}

StartDurations == {1, 60, 600}

InitDuration ==
    /\ \E fs \in {AllMissing, AllDenied} : EngineGenerator(fs, 0)
    /\ OtherFields
    /\ update_callbacks = <<>>
    /\ session_end_callbacks = <<>>
    /\ twin = NoTwin
    /\ held = NoHeld
    /\ dialog = NoDialog
    /\ window = NoWindow
    /\ \/ out = NoOutput
       \/ \E x \in DurationInputs : out = [op |-> "input", args |-> x, val |-> 0]

CalculateDynamicDuration ==
    /\ out.op = "input"
    /\ \E final \in final_durations(TextOf(out.args.words, out.args.lines),
                                     out.args.level, out.args.mode) :
          out' = [op |-> "_calculate_dynamic_duration", args |-> out.args,
                  val |-> bounded_duration(final)]
    /\ UNCHANGED <<files, generator_vars, current_session, lock, callback_vars,
                   now, pc, frame, result, origin, cb_log, db_vars, prompt,
                   twin, held, dialog, window>>

NextDuration ==
    \/ CalculateDynamicDuration
    \/ \E mode \in GameMode, level \in DifficultyLevel, duration \in StartDurations :
          /\ out.op = "none"
          /\ ~is_session_active
          /\ start_session("ui", "Anonymous", mode, level, duration)
    \/ is_session_active /\ reset_session("ui")

SpecDuration == InitDuration /\ [][NextDuration]_vars

-----------------------------------------------------------------------------
(* Calls of the Database Manager in every connection state *)

DbUsers == {"Ann", "Bob"}

DbModes == {"", "practice", "timed_challenge"}

DbCalled(op, args, o) ==
    [op |-> op, args |-> args, before |-> connection, raised |-> o.raised,
     failed |-> o.failed, val |-> o.val]

\* A call that leaves the table as it is
DbCall(op, args, o) ==
    /\ out' = DbCalled(op, args, o)
    /\ connection' = o.connection
    /\ UNCHANGED <<files, generator_vars, current_session, lock, callback_vars,
                   now, pc, frame, result, origin, cb_log, scores, purged, saves,
                   last_save, prompt, twin, held, dialog, window>>

\* lines 160-195, with the table of save_score
DbSaveScore(score) ==
    /\ saves < MaxStored
    /\ save_score(score)
    /\ out' = DbCalled("save_score", <<Rank(Row(score))>>,
                       try_except(Statement(connection), TRUE, FALSE, connection))
    /\ UNCHANGED <<files, generator_vars, current_session, lock, callback_vars,
                   now, pc, frame, result, origin, cb_log, prompt, twin, held,
                   dialog, window>>

InitConnection ==
    /\ EngineGenerator(AllMissing, 0)
    /\ update_callbacks = <<>>
    /\ session_end_callbacks = <<>>
    /\ SessionFields
    /\ TableFields("none")
    /\ out = NoOutput
    /\ twin = NoTwin
    /\ held = NoHeld
    /\ dialog = NoDialog
    /\ window = NoWindow

NextConnection ==
    \/ \E o \in initialize(connection) : DbCall("initialize", <<>>, o)
    \/ \E rank \in DbRanks : DbSaveScore(DbScore(rank))
    \/ \E u \in DbUsers : \E o \in get_user_scores(connection, u) :
          DbCall("get_user_scores", <<u>>, o)
    \/ \E m \in DbModes : \E o \in get_leaderboard(connection, m) :
          DbCall("get_leaderboard", <<m>>, o)
    \/ \E u \in DbUsers : \E o \in get_user_stats(connection, u) :
          DbCall("get_user_stats", <<u>>, o)
    \/ DbCall("get_all_users", <<>>, get_all_users(connection))
    \/ DbCall("close", <<>>, close(connection))

SpecConnection == InitConnection /\ [][NextConnection]_vars

-----------------------------------------------------------------------------
(* ui/name_entry_dialog.py. A string is [id, lead, len, trail]: len         *)
(* characters that begin and end with a non-blank, told apart by id, after  *)
(* lead blanks and before trail blanks; a string of blanks only has them in *)
(* lead.                                                                    *)

NameLimit == 50

NameLens == {1, NameLimit - 1, NameLimit} \cup {NameLimit + k : k \in 1..MaxOver}

EnteredNames ==
    [id : {"a", "b"}, lead : 0..MaxBlanks, len : NameLens, trail : 0..MaxBlanks]
      \cup [id : {""}, lead : 0..MaxBlanks, len : {0}, trail : {0}]

EmptyName == [id |-> "", lead |-> 0, len |-> 0, trail |-> 0]

\* str.strip()
strip(name) == [name EXCEPT !.lead = 0, !.trail = 0]

\* len(name)
len(name) == name.lead + name.len + name.trail

\* The checks on the name as entered, blanks included
validate_name_untrimmed(name) ==
    CASE len(name) = 0 -> [ok |-> FALSE, msg |-> "Please enter your name"]
      [] len(name) > NameLimit ->
            [ok |-> FALSE, msg |-> "Name must be 50 characters or less"]
      [] OTHER -> [ok |-> TRUE, msg |-> ""]

\* lines 134-148
validate_name(name) ==
    CASE len(strip(name)) = 0 -> [ok |-> FALSE, msg |-> "Please enter your name"]
      [] len(strip(name)) > NameLimit ->
            [ok |-> FALSE, msg |-> "Name must be 50 characters or less"]
      [] OTHER -> [ok |-> TRUE, msg |-> ""]

\* lines 15-20 and 127-132: the input starts as the stored last name;
\* setting is the value of "user/last_name" in the QSettings
NameEntryDialog(setting) ==
    [made |-> TRUE, text |-> setting, error |-> "", entered_name |-> EmptyName,
     state |-> "open", setting |-> setting, last |-> "__init__"]

DialogStep(d) ==
    /\ dialog.made
    /\ dialog' = d
    /\ UNCHANGED <<files, generator_vars, current_session, lock, callback_vars,
                   now, pc, frame, result, origin, cb_log, db_vars, prompt, out,
                   twin, held, window>>

\* The user edits the input line
EditName(name) ==
    /\ dialog.state = "open"
    /\ DialogStep([dialog EXCEPT !.text = name, !.last = "edit"])

\* lines 150-171: OK or Enter
accept_name ==
    /\ dialog.state = "open"
    /\ \E v \in {validate_name(dialog.text)} :
          IF v.ok
          THEN DialogStep([dialog EXCEPT !.error = "",
                                         !.entered_name = strip(dialog.text),
                                         !.setting = strip(dialog.text),
                                         !.state = "accepted",
                                         !.last = "accept_name"])
          ELSE DialogStep([dialog EXCEPT !.error = v.msg, !.last = "accept_name"])

\* lines 98 and 177-180: Cancel or Escape
reject ==
    /\ dialog.state = "open"
    /\ DialogStep([dialog EXCEPT !.state = "rejected", !.last = "reject"])

\* main_window.py line 303: the next dialog is a new one over the same settings
NextNameEntryDialog ==
    /\ dialog.state # "open"
    /\ DialogStep(NameEntryDialog(dialog.setting))

StoredNames == {EmptyName, [id |-> "a", lead |-> 0, len |-> 1, trail |-> 0]}

InitDialog ==
    /\ EngineGenerator(AllMissing, 0)
    /\ update_callbacks = <<>>
    /\ session_end_callbacks = <<>>
    /\ OtherFields
    /\ out = NoOutput
    /\ twin = NoTwin
    /\ held = NoHeld
    /\ window = NoWindow
    /\ \E last_name \in StoredNames : dialog = NameEntryDialog(last_name)

NextDialog ==
    \/ \E name \in EnteredNames : EditName(name)
    \/ accept_name
    \/ reject
    \/ NextNameEntryDialog

SpecDialog == InitDialog /\ [][NextDialog]_vars

-----------------------------------------------------------------------------
(* The Main Window with its status timer *)

\* ui/theme_manager.py: the values of models.user_models.Theme, all of them
\* keys of ThemeManager.themes (lines 22-100)
Themes == {"default", "dark", "high_contrast", "blue", "green"}

\* theme_manager.py lines 102-107
set_theme(current_theme, theme) ==
    IF theme \in Themes THEN theme ELSE current_theme

\* theme_manager.py lines 127-132
toggle_dark_light(current_theme) ==
    IF current_theme = "dark" THEN set_theme(current_theme, "default")
    ELSE set_theme(current_theme, "dark")

\* theme_manager.py lines 134-136
is_dark_theme(current_theme) == current_theme \in {"dark", "high_contrast"}

\* main_window.py lines 362-369: the tool tip of the header button
update_theme_button(w) ==
    [w EXCEPT !.theme_toggle_btn =
        IF is_dark_theme(w.current_theme) THEN "Switch to Light Theme"
        ELSE "Switch to Dark Theme"]

\* main_window.py lines 357-360; on_theme_changed (lines 410-412) has run
\* update_theme_button once already when set_theme emitted theme_changed
toggle_theme(w) ==
    update_theme_button([w EXCEPT !.current_theme = toggle_dark_light(@)])

\* main_window.py lines 341-344: an entry of the theme submenu
change_theme(w, theme) ==
    update_theme_button([w EXCEPT !.current_theme = set_theme(@, theme)])

\* lines 29-49, 233-245 and 247-256; last_name is the value of
\* "user/last_name" in the QSettings, "Guest" when there is none
MainWindowOf(last_name) ==
    [made |-> TRUE, session_status_label |-> Ready, ticks |-> 0, tab |-> 0,
     current_theme |-> "default", theme_toggle_btn |-> "Switch to Dark Theme",
     last_name |-> last_name, typing_interface |-> TypingInterface,
     statistics |-> StatisticsWidget(last_name),
     leaderboard |-> LeaderboardWidget]

MainWindow == MainWindowOf("Guest")

InitMain ==
    /\ EngineGenerator(AllMissing, 0)
    /\ OtherFields
    /\ out = NoOutput
    /\ twin = NoTwin
    /\ held = NoHeld
    /\ dialog = NoDialog
    /\ update_callbacks = <<"TypingInterface.on_performance_update",
                            "MainWindow.on_session_update">>
    /\ session_end_callbacks = <<"TypingInterface.on_session_end",
                                 "MainWindow.on_session_end">>
    /\ window = MainWindow

\* A handler of the window that leaves the engine as it is
WindowStep(w) ==
    /\ window.made
    /\ pc["ui"] = "idle"
    /\ window' = w
    /\ UNCHANGED <<files, generator_vars, current_session, lock, callback_vars,
                   now, pc, frame, result, origin, cb_log, db_vars, prompt, out,
                   twin, held, dialog>>

\* lines 270-274: a timeout of the status_timer
UpdateStatus ==
    /\ window.ticks < MaxTicks
    /\ WindowStep([update_status(window) EXCEPT !.ticks = @ + 1])

\* Start, while the bound on the refreshes leaves room for the one that the
\* end of the session brings
StartClicked ==
    /\ window.statistics.refreshes < MaxRefreshes
    /\ start_session_clicked("timed_challenge", "beginner", 1)

NextStatus ==
    \/ StartClicked
    \/ on_text_changed([len |-> 1, correct |-> 1])
    \/ UpdateWrite("ui")
    \/ UpdateStats("ui")
    \/ UpdateCallback("ui")
    \/ UpdateReturn("ui")
    \/ stop_session
    \/ EndSessionCallback("ui")
    \/ EndSessionReturn("ui")
    \/ reset_session("ui")
    \/ Tick
    \/ UpdateStatus

SpecStatus == InitMain /\ [][NextStatus]_vars

-----------------------------------------------------------------------------
(* The Main Window with its Statistics and Leaderboard tabs, over a scores  *)
(* table that may hold a row of an earlier run                              *)

StoredTables == {EmptyBag, SetToBag({Row(DbScore(<<2, 900>>))})}

InitTabs ==
    /\ EngineGenerator(AllMissing, 0)
    /\ SessionFields
    /\ \E table \in StoredTables : scores = table
    /\ connection = "open"
    /\ purged = {}
    /\ saves = 0
    /\ last_save = NoSave
    /\ out = NoOutput
    /\ twin = NoTwin
    /\ held = NoHeld
    /\ dialog = NoDialog
    /\ update_callbacks = <<"TypingInterface.on_performance_update",
                            "MainWindow.on_session_update">>
    /\ session_end_callbacks = <<"TypingInterface.on_session_end",
                                 "MainWindow.on_session_end">>
    /\ \E last_name \in {"Ann", "Guest"} : window = MainWindowOf(last_name)

\* The refresh button of the Statistics tab
RefreshClicked ==
    /\ window.made
    /\ window.statistics.refreshes < MaxRefreshes
    /\ WindowStep([window EXCEPT !.statistics =
                       refresh_data(@, StatisticsData(window.last_name))])

\* The user selects a tab
TabChanged(index) ==
    /\ window.made
    /\ index # window.tab
    /\ window.statistics.refreshes < MaxRefreshes
    /\ WindowStep(on_tab_changed(window, index))

NextTabs ==
    \/ StartClicked
    \/ on_text_changed([len |-> 1, correct |-> 1])
    \/ UpdateWrite("ui")
    \/ UpdateStats("ui")
    \/ UpdateCallback("ui")
    \/ UpdateReturn("ui")
    \/ stop_session
    \/ EndSessionCallback("ui")
    \/ EndSessionReturn("ui")
    \/ Tick
    \/ RefreshClicked
    \/ \E index \in 0..2 : TabChanged(index)

SpecTabs == InitTabs /\ [][NextTabs]_vars

-----------------------------------------------------------------------------
(* The Practice tab: the Start and Stop buttons and the typing input. Start *)
(* is a call of its handler whether or not the button is enabled, so that   *)
(* the engine's refusal of a second session is among the runs.              *)

NextControls ==
    \/ StartClicked
    \/ on_text_changed([len |-> 1, correct |-> 1])
    \/ UpdateWrite("ui")
    \/ UpdateStats("ui")
    \/ UpdateCallback("ui")
    \/ UpdateReturn("ui")
    \/ stop_session
    \/ EndSessionCallback("ui")
    \/ EndSessionReturn("ui")
    \/ Tick

SpecControls == InitMain /\ [][NextControls]_vars

-----------------------------------------------------------------------------
(* The end of a session over a scores table that is empty or full: the     *)
(* RetentionLimit rows are another user's than the window's "Guest", so    *)
(* the limits of the widgets' queries cut nothing off.                     *)

FullTable == [r \in {Row(DbScore(<<4, 1000>>))} |-> RetentionLimit]

InitEndOrder ==
    /\ EngineGenerator(AllMissing, 0)
    /\ SessionFields
    /\ scores \in {EmptyBag, FullTable}
    /\ connection = "open"
    /\ purged = {}
    /\ saves = 0
    /\ last_save = NoSave
    /\ out = NoOutput
    /\ twin = NoTwin
    /\ held = NoHeld
    /\ dialog = NoDialog
    /\ update_callbacks = <<"TypingInterface.on_performance_update",
                            "MainWindow.on_session_update">>
    /\ session_end_callbacks = <<"TypingInterface.on_session_end",
                                 "MainWindow.on_session_end">>
    /\ window = MainWindow

SpecEndOrder == InitEndOrder /\ [][NextControls]_vars

-----------------------------------------------------------------------------
(* The themes: the header button and Ctrl+T toggle, the theme submenu sets  *)
(* any of the five, while sessions are practised                            *)

ToggleTheme ==
    /\ window.made
    /\ WindowStep(toggle_theme(window))

ChangeTheme(theme) ==
    /\ theme # window.current_theme
    /\ WindowStep(change_theme(window, theme))

NextTheme ==
    \/ NextControls
    \/ ToggleTheme
    \/ \E theme \in Themes : ChangeTheme(theme)

SpecTheme == InitMain /\ [][NextTheme]_vars

-----------------------------------------------------------------------------
(* A caller of the Word Source Loader: it asks for lists, removes elements  *)
(* from the list it was handed last, and clears the cache, while the word   *)
(* files change under the loader                                            *)

LoaderDifficulties == {"simple", "hard"}

LoaderFiles ==
    {Uniform("missing"), Uniform("words"), Uniform("phrases"), Uniform("empty"),
     Uniform("denied")}

NoFirst == [d \in DifficultySet |-> <<>>]

InitLoader ==
    \E fs \in LoaderFiles :
        /\ GeneratorFields(fs, 0)
        /\ twin = NoTwin
        /\ dialog = NoDialog
        /\ window = NoWindow
        /\ held = [made |-> TRUE, op |-> "none", d |-> "simple", ok |-> FALSE,
                   returned |-> <<>>, val |-> <<>>, ref |-> "copy", pops |-> 0,
                   reads |-> 0, first |-> NoFirst]

\* WordSourceLoader.get_words_for_difficulty, called by the caller
LoaderGet(d) ==
    /\ held.made
    /\ word_cache[d].cached \/ held.reads < MaxReads
    /\ \E r \in {get_words_for_difficulty(word_cache, d)} :
          /\ word_cache' = r.cache
          /\ held' = [held EXCEPT
                 !.op = "get", !.d = d, !.ok = r.ok, !.returned = r.val,
                 !.val = r.val, !.ref = returned_list(d),
                 !.reads = IF word_cache[d].cached THEN @ ELSE @ + 1,
                 !.first = IF r.ok /\ @[d] = <<>>
                           THEN [@ EXCEPT ![d] = <<r.val>>] ELSE @]
    /\ UNCHANGED <<files, sources_loaded, allow_phrases, rng, generator,
                   current_session, lock, callback_vars, now, pc, frame, result,
                   origin, cb_log, db_vars, prompt, out, twin, dialog, window>>

\* The caller's words.pop() on the list it holds; the list is the cache's
\* own when the loader handed that out and has not dropped it since
CallerPops ==
    /\ held.made
    /\ held.op = "get"
    /\ held.ok
    /\ held.val # <<>>
    /\ held.pops < MaxPops
    /\ held' = [held EXCEPT !.val = SubSeq(@, 1, Len(@) - 1), !.pops = @ + 1]
    /\ word_cache' =
          IF held.ref = "cache" /\ word_cache[held.d].cached
          THEN [word_cache EXCEPT ![held.d].cut = @ + 1]
          ELSE word_cache
    /\ UNCHANGED <<files, sources_loaded, allow_phrases, rng, generator,
                   current_session, lock, callback_vars, now, pc, frame, result,
                   origin, cb_log, db_vars, prompt, out, twin, dialog, window>>

\* WordSourceLoader.reload_sources, lines 153-156
LoaderReload ==
    /\ held.made
    /\ word_cache' = loader_reload_sources(word_cache)
    /\ held' = [held EXCEPT !.op = "reload", !.ref = "copy", !.pops = 0,
                            !.first = NoFirst]
    /\ UNCHANGED <<files, sources_loaded, allow_phrases, rng, generator,
                   current_session, lock, callback_vars, now, pc, frame, result,
                   origin, cb_log, db_vars, prompt, out, twin, dialog, window>>

\* The word files are replaced
SetFiles(fs) ==
    /\ files # fs
    /\ files' = fs
    /\ UNCHANGED <<generator_vars, current_session, lock, callback_vars, now, pc,
                   frame, result, origin, cb_log, db_vars, prompt, out, twin,
                   held, dialog, window>>

NextLoader ==
    \/ \E d \in LoaderDifficulties : LoaderGet(d)
    \/ CallerPops
    \/ LoaderReload
    \/ \E fs \in LoaderFiles : SetFiles(fs)

SpecLoader == InitLoader /\ [][NextLoader]_vars

-----------------------------------------------------------------------------
(* Properties of the Advanced Word Generator *)

\* generate_words raises for difficulty d: its file yields no entry
Fails(d) == files[d] \in FailingStates

\* The last generate_mixed call asked weights[i].d for a positive number of
\* words
Requested(i) ==
    /\ ~(Remaining(out.weights, out.total_count) > 0 /\ Len(out.weights) > 1
         /\ SortRaises(out.weights, out.total_count))
    /\ difficulty_count(out.weights, i, out.total_count) > 0

\* C11: if word generation fails for one difficulty of the weight map while
\* another difficulty of the map can generate, generate_mixed raises nothing
\* and returns exactly total_count words, whichever position the failing
\* difficulty has in the map.
C11_FailureCompensated ==
    (/\ out.op = "generate_mixed"
     /\ \E i \in 1..Len(out.weights) :
           /\ out.weights[i].d \in DifficultySet
           /\ Fails(out.weights[i].d)
           /\ out.weights[i].w >= 0
           /\ SumWeights(out.weights) > 0
           /\ Requested(i)
           /\ \E j \in 1..Len(out.weights) : ~Fails(out.weights[j].d))
    => out.ok /\ Len(out.val) = out.total_count

\* The pool of difficulty d: the list the Word Source Loader holds for it
Pool(d) == CachedWords(d, word_cache[d])

HasPool(d) == word_cache[d].cached

Range(seq) == {seq[i] : i \in 1..Len(seq)}

\* How often each value occurs in seq
BagOfSeq(seq) ==
    [x \in Range(seq) |-> Cardinality({i \in 1..Len(seq) : seq[i] = x})]

\* C12: generate_words(difficulty, count) fails with ValueError
\* (invalid input) for count <= 0 and with RuntimeError (unavailable) for
\* an empty pool; for a positive count and a non-empty pool it returns
\* exactly count items, all of the pool, no pool position used twice when
\* count <= pool size (no value occurs more often than in the pool) and
\* with a repeated value when count > pool size.
C12_GenerateWords ==
    out.op = "generate_words" =>
        LET d == out.args.d
            count == out.args.count
        IN /\ count <= 0 => ~out.ok /\ out.err = "ValueError"
           /\ count > 0 /\ HasPool(d) /\ Pool(d) = <<>> =>
                 ~out.ok /\ out.err = "RuntimeError"
           /\ count > 0 /\ HasPool(d) /\ Pool(d) # <<>> =>
                 /\ out.ok
                 /\ Len(out.val) = count
                 /\ Range(out.val) \subseteq Range(Pool(d))
                 /\ count <= Len(Pool(d)) =>
                       BagOfSeq(out.val) \sqsubseteq BagOfSeq(Pool(d))
                 /\ count > Len(Pool(d)) =>
                       \E i, j \in 1..count : i # j /\ out.val[i] = out.val[j]

C12_Witness ==
    /\ out.op = "generate_words"
    /\ out.ok
    /\ out.args.count = 7
    /\ Len(Pool(out.args.d)) = 3
    /\ Len(out.val) = 7
    /\ Cardinality(Range(out.val)) = 3

\* C13: for all positive duration_seconds and target_wpm,
\* generate_for_session returns exactly
\* max(10, floor(duration_seconds / 60 * target_wpm * 1.10)) words.
C13_SessionWordCount ==
    (/\ out.op = "generate_for_session"
     /\ out.args.duration_seconds > 0
     /\ out.args.target_wpm > 0)
    => /\ out.ok
       /\ Len(out.val) =
             Max(10, (out.args.duration_seconds * out.args.target_wpm * 110)
                     \div 6000)

\* The length of a line as a string: its entries and the spaces between
StringLen(line) ==
    IF line = <<>> THEN 0 ELSE SumChars(line, 1, Len(line)) + Len(line) - 1

-----------------------------------------------------------------------------
(* Properties of the Word Source Loader *)

-----------------------------------------------------------------------------
(* Properties of the generator's lazy loading *)

\* C17: load_default_sources marks the sources as loaded if and only if at
\* least one difficulty yields words, and otherwise raises RuntimeError and
\* leaves them unloaded; every generation call made while the sources are
\* unloaded runs a load first (generate_words with a count that is not
\* positive generates nothing and is left aside), and a generation call made
\* while they are loaded runs none.
C17_LazyLoading ==
    /\ out.op = "load_default_sources" =>
          /\ out.ok <=> \E d \in DifficultySet : HasPool(d) /\ Pool(d) # <<>>
          /\ out.ok <=> sources_loaded
          /\ ~out.ok => out.err = "RuntimeError"
    /\ (out.op \in GenerationOps /\ ~out.loaded_before
        /\ (out.op = "generate_words" => out.args.count > 0)) =>
          out.loads >= 1
    /\ (out.op \in GenerationOps /\ out.loaded_before) => out.loads = 0

-----------------------------------------------------------------------------
(* Properties of the planned duration *)

DurationRange == 30..600

\* C18: for every target text (any word count and line count, the empty
\* text included), every mode and every difficulty,
\* _calculate_dynamic_duration returns an integer in [30, 600], so every
\* session created by start_session has a planned duration in that range
\* whatever duration the caller asked for.
C18_DurationInRange ==
    /\ out.op = "_calculate_dynamic_duration" => out.val \in DurationRange
    /\ (result["ui"].op = "start_session" /\ result["ui"].status = "True"
        /\ ~current_session.none) =>
          current_session.duration_seconds \in DurationRange

\* A text whose time at the expected rate is over ten minutes
C18_Witness ==
    /\ out.op = "_calculate_dynamic_duration"
    /\ out.val = 600
    /\ out.args.words * 60 > 600 * _get_target_wpm_for_difficulty(out.args.level) * 2

-----------------------------------------------------------------------------
(* Properties of the Database Manager's error handling *)

DbOps == {"initialize", "save_score", "get_user_scores", "get_leaderboard",
          "get_user_stats", "get_all_users", "close"}

\* What each method returns when an exception was caught inside it
FailureValue(op) ==
    CASE op \in {"initialize", "save_score"} -> FALSE
      [] op \in {"get_user_scores", "get_leaderboard"} -> EmptyBag
      [] op = "get_all_users" -> {}
      [] op = "get_user_stats" -> NoStats
      [] OTHER -> "None"

\* C19: in every connection state (never initialized, open, closed, closed
\* more than once) every Database Manager operation returns normally:
\* save_score returns false and the queries return an empty list or nothing
\* when they fail inside, and close may be called any number of times.
C19_NoExceptionLeaves ==
    out.op \in DbOps =>
        /\ ~out.raised
        /\ out.failed => out.val = FailureValue(out.op)
        /\ (out.before # "open" /\ out.op \in {"save_score", "get_all_users"}) =>
              out.failed

\* close() on a connection that is closed already, rows in the table
C19_Witness ==
    /\ out.op = "close"
    /\ out.before = "closed"
    /\ connection = "closed"
    /\ ~out.raised
    /\ saves > 0

-----------------------------------------------------------------------------
(* Properties of the name-entry dialog *)

\* A step of accept_name: the handler ran last and the step changed something
AcceptNameStep == dialog.made /\ dialog'.made /\ dialog'.last = "accept_name"

Trimmed == len(strip(dialog.text))

\* C20: the dialog accepts exactly when the trimmed input has between 1 and
\* 50 characters; on rejection (empty, or longer than 50, each with its own
\* message) the dialog stays open, no name is returned and the stored last
\* name is unchanged; on acceptance the trimmed name is returned and written
\* to that setting.
C20_NameValidation ==
    [][AcceptNameStep =>
         IF Trimmed >= 1 /\ Trimmed <= NameLimit
         THEN /\ dialog'.state = "accepted"
              /\ dialog'.entered_name = strip(dialog.text)
              /\ dialog'.setting = strip(dialog.text)
         ELSE /\ dialog'.state = "open"
              /\ dialog'.entered_name = EmptyName
              /\ dialog'.setting = dialog.setting
              /\ dialog'.error = IF Trimmed = 0 THEN "Please enter your name"
                                 ELSE "Name must be 50 characters or less"
              /\ dialog'.error # ""]_vars

\* A name of exactly 50 characters between blanks was accepted over another
\* stored name
C20_Witness ==
    /\ dialog.made
    /\ dialog.last = "accept_name"
    /\ dialog.state = "accepted"
    /\ len(dialog.text) > NameLimit
    /\ dialog.entered_name.len = NameLimit
    /\ dialog.setting = dialog.entered_name
    /\ dialog.setting.id = "b"

-----------------------------------------------------------------------------
(* Properties of the Main Window *)

\* A timeout of the status timer
StatusTick == window.made /\ window'.made /\ window'.ticks = window.ticks + 1

\* C21: while a session is active every tick of the 1-second timer sets
\* the status label to the MM:SS countdown, and once the session has ended
\* (by end_session or by a reset) a tick sets the label to "Ready".
C21_StatusLabel ==
    [][StatusTick =>
         window'.session_status_label =
             IF is_session_active
             THEN Label("Time", get_time_remaining \div 60, get_time_remaining % 60)
             ELSE Ready]_vars

\* A run of the Statistics widget's refresh_data
StatisticsRefreshed ==
    /\ window.made /\ window'.made
    /\ window'.statistics.refreshes = window.statistics.refreshes + 1

\* C22: after every refresh of the Statistics widget (button, tab
\* activation, session completion) the overview and the recent-sessions
\* table show the Database Manager's current data for the current user, also
\* when the widget was created while the user had no stored score.
C22_StatisticsCurrent ==
    [][StatisticsRefreshed =>
         /\ window'.statistics.overview = StatisticsData(window.last_name).stats
         /\ window'.statistics.table = StatisticsData(window.last_name).scores]_vars

\* The controls of the Typing Interface agree with the engine, outside a
\* running end_session whose callbacks have not all been called
ControlsFollowSession ==
    (window.made /\ pc["ui"] # "end_callbacks") =>
        /\ window.typing_interface.start_button
              # window.typing_interface.stop_button
        /\ window.typing_interface.stop_button = is_session_active
        /\ window.typing_interface.typing_input = is_session_active
        /\ window.typing_interface.mode_combo
              = window.typing_interface.start_button
        /\ window.typing_interface.difficulty_combo
              = window.typing_interface.start_button
        /\ window.typing_interface.time_combo
              = window.typing_interface.start_button

\* A start that the engine refused or that raised
StartFailed == StartClicked /\ result'["ui"].status # "True"

\* C23: in every state reached through Start and Stop exactly one of the two
\* buttons is enabled, Stop and the typing input are enabled exactly while
\* the engine has an active session, the three selectors are enabled exactly
\* when Start is, and a start that fails changes none of the six.
C23_ControlsFollowSession ==
    /\ ControlsFollowSession
    /\ [][/\ ControlsFollowSession'
          /\ StartFailed => window'.typing_interface = window.typing_interface]_vars

\* A second session is running, a Start during it was refused, and the first
\* session was ended with Stop
C23_Witness ==
    /\ window.made
    /\ is_session_active
    /\ result["ui"] = StartReturned("start_time_based_session", 1, "False")
    /\ prompt.asked
    /\ window.typing_interface.stop_button
    /\ ~window.typing_interface.start_button

\* C24: a toggle from any of the five themes leaves default or dark active,
\* and every toggle flips the header button between "Switch to Light Theme"
\* and "Switch to Dark Theme".
C24_ToggleFlips ==
    [][ToggleTheme =>
          /\ window'.current_theme \in {"default", "dark"}
          /\ window'.theme_toggle_btn # window.theme_toggle_btn]_vars

-----------------------------------------------------------------------------
(* Properties of reset_session *)

\* A reset_session call that finds an active session
ResetOfActive == is_session_active /\ reset_session_discarding("ui")

\* C25: reset_session on an active session clears the session's active flag
\* and sets its end time, computes no score and calls no session-end
\* callback, and leaves the engine without a session.
C25_ResetFinalizes ==
    [][ResetOfActive =>
          /\ ~out'.session.is_active
          /\ out'.session.end_time # -1
          /\ current_session'.none
          /\ result'["ui"].record = NoRecord
          /\ cb_log'["ui"] = <<>>]_vars

-----------------------------------------------------------------------------
(* Properties of the word sources *)

\* C26: once load_default_sources has run with allow_phrases false, every
\* entry that generate_words returns is a single word: no entry read from a
\* word file holds a space.
C26_NoPhraseEntries ==
    (/\ out.op = "generate_words"
     /\ out.ok
     /\ sources_loaded
     /\ ~allow_phrases) =>
        \A i \in DOMAIN out.val : Len(out.val[i]) <= 1

-----------------------------------------------------------------------------
(* Properties of update_typed_text beside end_session and reset_session *)

\* Caller t executes a statement of update_typed_text past its first test
UpdateStep(t) == pc[t] \in {"update_write", "update_stats"} /\ pc'[t] # pc[t]

\* C27: a session that end_session has finalized is not modified by
\* update_typed_text and no update callback is called for it, also when the
\* call runs beside end_session or reset_session, and update_typed_text
\* never raises.
C27_FinalizedUntouched ==
    [][\A t \in Callers :
          UpdateStep(t) =>
             /\ result'[t] # Returned("update_typed_text", "raised")
             /\ (~current_session.none /\ ~current_session.is_active) =>
                    /\ current_session' = current_session
                    /\ pc'[t] # "update_callbacks"]_vars

-----------------------------------------------------------------------------
(* Properties of end_session with callbacks that call the engine *)

\* C28: a call of start_session, start_time_based_session, end_session,
\* reset_session or cleanup made by a session-end callback never waits for
\* the lock that the end_session running the callback holds, so end_session
\* returns.
C28_NoCallBlocksForever == \A t \in Threads : ~(pc[t] = "blocked" /\ lock = t)

-----------------------------------------------------------------------------
(* Properties of save_score and of the order of the end handlers *)

\* C29: when save_score has returned True, the row it inserted is in the
\* scores table and among the rows get_leaderboard returns with limit 50.
C29_SavedScoreListed ==
    last_save.status = "True" =>
        /\ last_save.kept
        /\ \A o \in get_leaderboard(connection, "") : BagIn(last_save.row, o.val)

\* end_session calls the Main Window's end handler
MainWindowEndStep ==
    /\ pc["ui"] = "end_callbacks"
    /\ frame["ui"].i <= Len(session_end_callbacks)
    /\ session_end_callbacks[frame["ui"].i] = "MainWindow.on_session_end"
    /\ frame'["ui"].i = frame["ui"].i + 1

\* C30: when the Main Window's end handler refreshes the widgets, the Typing
\* Interface's end handler of the same session end has run, and if it saved
\* the score, the scores table and the refreshed leaderboard hold that score.
C30_RefreshSeesSavedScore ==
    [][MainWindowEndStep =>
          /\ \E i \in DOMAIN cb_log["ui"] :
                 cb_log["ui"][i] = "TypingInterface.on_session_end"
          /\ NameAccepted(prompt) =>
                 /\ BagIn(Row(frame["ui"].record), scores)
                 /\ BagIn(Row(frame["ui"].record), window'.leaderboard.table)]_vars

====
